---------------------------- MODULE Spec2Model ----------------------------
(***************************************************************************)
(* Model of the js-objectdetect core bundled in src/unnamed/part_000:      *)
(* image operations, summed-area tables, the cascade evaluator, the        *)
(* multi-scale detector object and rectangle grouping.                     *)
(*                                                                         *)
(* Arrays are functions over 0..n-1 (JavaScript indexing).  A typed-array  *)
(* store outside the array is dropped, as in JavaScript.  All table values *)
(* of the model stay far below 2^31, so the Uint32 conversion of a store   *)
(* is the identity on them.                                                *)
(***************************************************************************)
EXTENDS Integers, Naturals, Sequences, FiniteSets, TLC

VARIABLES
    pc,         \* position of the running scenario
    image,        \* 1-channel source image (row-major array)
    imageWidth,   \* its width
    imageHeight,  \* its height
    satBuf,       \* summed-area table buffer (Null: not allocated yet)
    ssatBuf,      \* squared summed-area table buffer
    rsatBuf,      \* rotated summed-area table buffer
    rects,        \* groupRectangles: the rectangles passed
    minNeighbors, \* groupRectangles: the minimum member count passed
    confluence,   \* groupRectangles: the confluence passed, <<num, den>> (0: omitted)
    grouped,      \* groupRectangles: its outcome
    cascade,      \* detect: the generic classifier
    compiled,     \* detect: the classifier compiled for the image width
    stepSize,     \* detect: the step passed
    cannySatBuf,  \* detect: the table of the edge image passed (Null: none)
    loc,          \* detect: its locals while it runs
    imageType,    \* rescaleImage, mirrorImage: the constructor of the source array
    rescaleFactor, \* rescaleImage: the factor passed
    dstPassed,    \* rescaleImage, mirrorImage: the dst passed (Null: none)
    dstBuf,       \* rescaleImage, mirrorImage: the array returned
    again,        \* mirrorImage: the array returned for the returned array
    det,          \* detector: the fields of the object
    call,         \* detector: the arguments of the last detect call
    result,       \* detector: what the last detect call returned
    camera        \* loadCamera: the variables of its closure (Null: not called)

imageVars == <<image, imageWidth, imageHeight>>
tableVars == <<satBuf, ssatBuf, rsatBuf>>
groupVars == <<rects, minNeighbors, confluence, grouped>>
detectVars == <<cascade, compiled, stepSize, cannySatBuf, loc>>
bufferVars == <<imageType, rescaleFactor, dstPassed, dstBuf, again>>
detectorVars == <<det, call, result, camera>>
vars == <<pc, imageVars, tableVars, groupVars, detectVars, bufferVars, detectorVars>>

\* A buffer argument that was not passed, or a field not assigned yet.
Null == <<>>

\* Bounds of the model.
MaxDim == 3
MaxPixel == 2
MaxLit == 2
StaleValue == 7
MaxRects == 4
MaxMinNeighbors == 3
MaxStep == 2

Min(a, b) == IF a < b THEN a ELSE b
Max(a, b) == IF a > b THEN a ELSE b
Abs(a) == IF a < 0 THEN -a ELSE a

\* The value of an expression, computed once.
Once(S) == CHOOSE value \in S : TRUE

\* new Uint32Array(n): n zeros.
NewArray(n) == [i \in 0..(n - 1) |-> 0]

\* dst[i] = v on a typed array.
Store(a, i, v) == IF i \in DOMAIN a THEN [a EXCEPT ![i] = v] ELSE a

\* Images with at most k non-zero pixels, n pixels in all.
RECURSIVE ImagesLit(_, _)
ImagesLit(n, k) ==
    IF k = 0 THEN {NewArray(n)}
    ELSE LET S == ImagesLit(n, k - 1)
         IN  S \cup {[f EXCEPT ![i] = v] : f \in S, i \in 0..(n - 1), v \in 1..MaxPixel}

\* A buffer a previous call left behind, of the size the tables need.
StaleBuffer(w, h) == [i \in 0..((w + 1) * (h + 1) - 1) |-> StaleValue]

\* The parts of the state a scenario does not use stay as they are here.
ImageIdle == image = <<>> /\ imageWidth = 0 /\ imageHeight = 0
TableIdle == satBuf = Null /\ ssatBuf = Null /\ rsatBuf = Null
GroupIdle == rects = <<>> /\ minNeighbors = 0 /\ confluence = <<0, 1>> /\ grouped = Null
DetectIdle ==
    cascade = <<>> /\ compiled = <<>> /\ stepSize = 0 /\ cannySatBuf = Null /\ loc = Null
BufferIdle ==
    /\ imageType = "" /\ rescaleFactor = <<1, 1>>
    /\ dstPassed = Null /\ dstBuf = Null /\ again = Null
DetectorIdle == det = Null /\ call = Null /\ result = Null /\ camera = Null

---------------------------------------------------------------------------
(* computeSat, computeSquaredSat, computeRsat                              *)

\* for (var i = srcHeight * dstWidth; i >= 0; i -= dstWidth) dst[i] = 0;
RECURSIVE ZeroFirstColumn(_, _, _)
ZeroFirstColumn(dst, i, dstWidth) ==
    IF i >= 0
    THEN Once({ZeroFirstColumn(next, i - dstWidth, dstWidth) : next \in {Store(dst, i, 0)}})
    ELSE dst

\* Mutant: the pixel is added instead of the running column sum.
RECURSIVE SatColumnNoColumnSum(_, _, _, _, _, _, _)
SatColumnNoColumnSum(src, dst, y, column_sum, index, dstWidth, srcHeight) ==
    IF y <= srcHeight
    THEN LET ix == index + dstWidth
         IN  Once({SatColumnNoColumnSum(src, next, y + 1, column_sum, ix, dstWidth,
                                        srcHeight) :
                      next \in {Store(dst, ix, dst[ix - 1] + src[index - y])}})
    ELSE dst

\* The inner loop of computeSat: one column of the table, top to bottom.
RECURSIVE SatColumn(_, _, _, _, _, _, _)
SatColumn(src, dst, y, column_sum, index, dstWidth, srcHeight) ==
    IF y <= srcHeight
    THEN LET c2 == column_sum + src[index - y]
             ix == index + dstWidth
         IN  Once({SatColumn(src, next, y + 1, c2, ix, dstWidth, srcHeight) :
                      next \in {Store(dst, ix, dst[ix - 1] + c2)}})
    ELSE dst

RECURSIVE SatColumns(_, _, _, _, _)
SatColumns(src, dst, x, w, h) ==
    IF x <= w
    THEN Once({SatColumns(src, next, x + 1, w, h) :
                  next \in {SatColumn(src, Store(dst, x, 0), 1, 0, x, w + 1, h)}})
    ELSE dst

computeSat(src, w, h, dstArg) ==
    LET dstWidth == w + 1
        dst0 == IF dstArg = Null THEN NewArray(w * h + dstWidth + h) ELSE dstArg
    IN  Once({SatColumns(src, zeroed, 1, w, h) :
                 zeroed \in {ZeroFirstColumn(dst0, h * dstWidth, dstWidth)}})

RECURSIVE SquaredSatColumn(_, _, _, _, _, _, _)
SquaredSatColumn(src, dst, y, column_sum, index, dstWidth, srcHeight) ==
    IF y <= srcHeight
    THEN LET val == src[index - y]
             c2 == column_sum + val * val
             ix == index + dstWidth
         IN  Once({SquaredSatColumn(src, next, y + 1, c2, ix, dstWidth, srcHeight) :
                      next \in {Store(dst, ix, dst[ix - 1] + c2)}})
    ELSE dst

RECURSIVE SquaredSatColumns(_, _, _, _, _)
SquaredSatColumns(src, dst, x, w, h) ==
    IF x <= w
    THEN Once({SquaredSatColumns(src, next, x + 1, w, h) :
                  next \in {SquaredSatColumn(src, Store(dst, x, 0), 1, 0, x, w + 1, h)}})
    ELSE dst

computeSquaredSat(src, w, h, dstArg) ==
    LET dstWidth == w + 1
        dst0 == IF dstArg = Null THEN NewArray(w * h + dstWidth + h) ELSE dstArg
    IN  Once({SquaredSatColumns(src, zeroed, 1, w, h) :
                 zeroed \in {ZeroFirstColumn(dst0, h * dstWidth, dstWidth)}})

\* for (var i = 0; i < dstWidth; ++i) dst[i] = 0;
RECURSIVE ZeroFirstRow(_, _, _)
ZeroFirstRow(dst, i, dstWidth) ==
    IF i < dstWidth
    THEN Once({ZeroFirstRow(next, i + 1, dstWidth) : next \in {Store(dst, i, 0)}})
    ELSE dst

\* Forward sweep of computeRsat: one source row, then the carry into the
\* last column of the next table row.
RECURSIVE RsatForwardRow(_, _, _, _, _, _)
RsatForwardRow(src, dst, x, y, index, w) ==
    IF x < w
    THEN Once({RsatForwardRow(src, next, x + 1, y, index + 1, w) :
                  next \in {Store(dst, index + w + 2, src[index - y] + dst[index])}})
    ELSE Store(dst, index + w + 1, dst[index + w + 1] + dst[index])

RECURSIVE RsatForward(_, _, _, _, _, _)
RsatForward(src, dst, y, index, w, h) ==
    IF y < h
    THEN Once({RsatForward(src, next, y + 1, index + w + 1, w, h) :
                  next \in {RsatForwardRow(src, dst, 0, y, index, w)}})
    ELSE dst

\* Backward sweep: one table column, bottom to top.
RECURSIVE RsatBackwardColumn(_, _, _, _)
RsatBackwardColumn(dst, y, index, dstWidth) ==
    IF y > 0
    THEN LET ix == index - dstWidth
         IN  Once({RsatBackwardColumn(next, y - 1, ix, dstWidth) :
                      next \in {Store(dst, ix + dstWidth,
                                      dst[ix + dstWidth] + dst[ix] + dst[ix + 1])}})
    ELSE dst

\* for (var x = srcWidth - 1; x > 0; --x)
RECURSIVE RsatBackward(_, _, _, _)
RsatBackward(dst, x, w, h) ==
    IF x > 0
    THEN Once({RsatBackward(next, x - 1, w, h) :
                  next \in {RsatBackwardColumn(dst, h, x + h * (w + 1), w + 1)}})
    ELSE dst

computeRsat(src, w, h, dstArg) ==
    LET dstWidth == w + 1
        dst0 == IF dstArg = Null THEN NewArray(w * h + dstWidth + h) ELSE dstArg
    IN  Once({RsatBackward(swept, w - 1, w, h) :
                 swept \in {Once({RsatForward(src, zeroed, 0, 0, w, h) :
                     zeroed \in {Once({ZeroFirstRow(column, 0, dstWidth) :
                         column \in {ZeroFirstColumn(dst0, h * dstWidth, dstWidth)}})}})}})

---------------------------------------------------------------------------
(* The three tables of one image, computed in the order the detector       *)
(* computes them.                                                          *)

InitSat ==
    /\ pc = "image"
    /\ imageWidth \in 1..MaxDim
    /\ imageHeight \in 1..MaxDim
    /\ image \in ImagesLit(imageWidth * imageHeight, MaxLit)
    /\ \E stale \in BOOLEAN :
          /\ satBuf = IF stale THEN StaleBuffer(imageWidth, imageHeight) ELSE Null
          /\ ssatBuf = satBuf
          /\ rsatBuf = satBuf
    /\ GroupIdle /\ DetectIdle /\ BufferIdle /\ DetectorIdle

ComputeSat ==
    /\ pc = "image"
    /\ satBuf' = computeSat(image, imageWidth, imageHeight, satBuf)
    /\ pc' = "sat"
    /\ UNCHANGED <<imageVars, ssatBuf, rsatBuf, groupVars, detectVars, bufferVars, detectorVars>>

ComputeSquaredSat ==
    /\ pc = "sat"
    /\ ssatBuf' = computeSquaredSat(image, imageWidth, imageHeight, ssatBuf)
    /\ pc' = "ssat"
    /\ UNCHANGED <<imageVars, satBuf, rsatBuf, groupVars, detectVars, bufferVars, detectorVars>>

ComputeRsat ==
    /\ pc = "ssat"
    /\ rsatBuf' = computeRsat(image, imageWidth, imageHeight, rsatBuf)
    /\ pc' = "rsat"
    /\ UNCHANGED <<imageVars, satBuf, ssatBuf, groupVars, detectVars, bufferVars, detectorVars>>

NextSat == ComputeSat \/ ComputeSquaredSat \/ ComputeRsat

SpecSat == InitSat /\ [][NextSat]_vars

\* Brute-force sum of f(pixel) over the axis-aligned rectangle [x0,x1) x [y0,y1).
RECURSIVE SumOverSet(_, _, _)
SumOverSet(S, s, sq) ==
    IF S = {} THEN 0
    ELSE LET i == CHOOSE j \in S : TRUE
         IN  (IF sq THEN s[i] * s[i] ELSE s[i]) + SumOverSet(S \ {i}, s, sq)

RectPixels(x0, y0, x1, y1, w) ==
    {py * w + px : px \in x0..(x1 - 1), py \in y0..(y1 - 1)}

FourCorner(T, x0, y0, x1, y1, stride) ==
    T[y1 * stride + x1] - T[y0 * stride + x1] - T[y1 * stride + x0] + T[y0 * stride + x0]

TableIsSat(T, sq) ==
    /\ DOMAIN T = 0..((imageWidth + 1) * (imageHeight + 1) - 1)
    /\ \A x \in 0..imageWidth : T[x] = 0
    /\ \A y \in 0..imageHeight : T[y * (imageWidth + 1)] = 0
    /\ \A x0 \in 0..imageWidth, x1 \in 0..imageWidth, y0 \in 0..imageHeight, y1 \in 0..imageHeight :
          (x0 <= x1 /\ y0 <= y1) =>
              FourCorner(T, x0, y0, x1, y1, imageWidth + 1)
                  = SumOverSet(RectPixels(x0, y0, x1, y1, imageWidth), image, sq)

\* C1: the table computeSat returns has a zero first row and column and its
\* 4-corner difference over any axis-aligned rectangle is the brute-force sum of
\* the pixels in it; computeSquaredSat likewise for the squared pixels.
C1_SatFourCorner ==
    /\ pc \in {"sat", "ssat", "rsat"} => TableIsSat(satBuf, FALSE)
    /\ pc \in {"ssat", "rsat"} => TableIsSat(ssatBuf, TRUE)

C1_Witness ==
    /\ pc = "ssat"
    /\ imageWidth = 2 /\ imageHeight = 2
    /\ image[0] = 2 /\ image[3] = 1
    /\ satBuf[8] = 3 /\ ssatBuf[8] = 5

\* Pixels of the 45-degree rectangle (x, y, rw, rh) whose top corner is the table
\* point (x, y): rw steps down-right, rh steps down-left.
TiltedPixels(x, y, rw, rh, w, h) ==
    {p[2] * w + p[1] :
        p \in {q \in (0..(w - 1)) \X (0..(h - 1)) :
                  /\ x - y - 2 * rh <= q[1] - q[2] /\ q[1] - q[2] <= x - y - 1
                  /\ x + y - 1 <= q[1] + q[2] /\ q[1] + q[2] <= x + y + 2 * rw - 2}}

\* The reads detect performs for a tilted feature at table index f1.
TiltedFourRead(R, x, y, rw, rh, w) ==
    LET f1 == x + y * (w + 1)
        f2 == f1 + rw * (w + 2)
        f3 == f1 + rh * w
    IN  R[f1] - R[f2] - R[f3] + R[f2 + f3 - f1]

TiltedRects(w, h) ==
    {r \in (0..w) \X (0..h) \X (1..w) \X (1..w) :
        /\ r[1] - r[4] >= 0
        /\ r[1] + r[3] <= w
        /\ r[2] + r[3] + r[4] <= h}

\* C2: for every tilted rectangle with its corners inside the table the 4-read
\* expression over the table of computeRsat is the brute-force sum of the
\* pixels the rectangle covers, rectangles touching table column 0 included.
C2_RsatFourRead ==
    pc = "rsat" =>
        \A r \in TiltedRects(imageWidth, imageHeight) :
            TiltedFourRead(rsatBuf, r[1], r[2], r[3], r[4], imageWidth)
                = SumOverSet(TiltedPixels(r[1], r[2], r[3], r[4], imageWidth, imageHeight),
                             image, FALSE)

---------------------------------------------------------------------------
(* groupRectangles.  A rectangle is <<x, y, width, height>>.  A group is   *)
(* the array [x, y, width, height, count] of the code with its four        *)
(* numbers kept as exact fractions over the common denominator d:          *)
(* d = 1 while the group holds sums, d = count once it was averaged.       *)
(* An array slot that holds no group reads as Undefined; reading a field   *)
(* of Undefined is the TypeError of the code.                              *)

Undefined == [defined |-> FALSE, x |-> 0, y |-> 0, w |-> 0, h |-> 0, n |-> 0, d |-> 1]

EmptyGroup == [defined |-> TRUE, x |-> 0, y |-> 0, w |-> 0, h |-> 0, n |-> 0, d |-> 1]

\* groups[i] of a JavaScript array (0-based).
At(groups, i) == IF i + 1 \in 1..Len(groups) THEN groups[i + 1] ELSE Undefined

\* groups.splice(i, 1)
Splice(groups, i) ==
    [k \in 1..(Len(groups) - 1) |-> IF k < i + 1 THEN groups[k] ELSE groups[k + 1]]

\* if (!confluence) confluence = 0.25;
Confluence(c) == IF c = Null \/ c[1] = 0 THEN <<1, 4>> ELSE c

\* The similarity test of the partition loop, delta = confluence * (min + min).
Similar(rect1, rect2, c) ==
    LET m == Min(rect1[3], rect2[3]) + Min(rect1[4], rect2[4])
    IN  /\ c[2] * Abs(rect1[1] - rect2[1]) <= c[1] * m
        /\ c[2] * Abs(rect1[2] - rect2[2]) <= c[1] * m
        /\ c[2] * Abs(rect1[1] + rect1[3] - rect2[1] - rect2[3]) <= c[1] * m
        /\ c[2] * Abs(rect1[2] + rect1[4] - rect2[2] - rect2[4]) <= c[1] * m

\* Mutant: a rectangle takes the class of the last earlier rectangle it
\* is similar to.
RECURSIVE PartitionLast(_, _, _, _, _)
PartitionLast(rs, i, labels, numClasses, c) ==
    IF i > Len(rs) THEN [labels |-> labels, numClasses |-> numClasses]
    ELSE LET J == {j \in 1..(i - 1) : Similar(rs[i], rs[j], c)}
         IN  IF J # {}
             THEN LET j == CHOOSE k \in J : \A l \in J : k >= l
                  IN  PartitionLast(rs, i + 1, [labels EXCEPT ![i] = labels[j]],
                                    numClasses, c)
             ELSE PartitionLast(rs, i + 1, [labels EXCEPT ![i] = numClasses],
                                numClasses + 1, c)

\* Partition rects into similarity classes: labels[i] for i = 1..Len(rs).
RECURSIVE Partition(_, _, _, _, _)
Partition(rs, i, labels, numClasses, c) ==
    IF i > Len(rs) THEN [labels |-> labels, numClasses |-> numClasses]
    ELSE LET J == {j \in 1..(i - 1) : Similar(rs[i], rs[j], c)}
         IN  IF J # {}
             THEN LET j == CHOOSE k \in J : \A l \in J : k <= l
                  IN  Partition(rs, i + 1, [labels EXCEPT ![i] = labels[j]], numClasses, c)
             ELSE Partition(rs, i + 1, [labels EXCEPT ![i] = numClasses], numClasses + 1, c)

\* Sum the members of every class into its group.
RECURSIVE Accumulate(_, _, _, _)
Accumulate(rs, labels, i, groups) ==
    IF i > Len(rs) THEN groups
    ELSE LET rect == rs[i]
             g == groups[labels[i] + 1]
         IN  Accumulate(rs, labels, i + 1,
                 [groups EXCEPT ![labels[i] + 1] =
                     [g EXCEPT !.x = @ + rect[1], !.y = @ + rect[2],
                               !.w = @ + rect[3], !.h = @ + rect[4], !.n = @ + 1]])

\* The averaging loop: i runs to numClasses while splice shortens the array.
RECURSIVE Average(_, _, _, _)
Average(groups, i, numClasses, minN) ==
    IF i >= numClasses THEN [threw |-> FALSE, groups |-> groups]
    ELSE IF ~At(groups, i).defined THEN [threw |-> TRUE, groups |-> groups]
    ELSE IF At(groups, i).n >= minN
         THEN Average([groups EXCEPT ![i + 1].d = @ * groups[i + 1].n],
                      i + 1, numClasses, minN)
         ELSE Average(Splice(groups, i), i + 1, numClasses, minN)

\* r1 lies inside r2 within the tolerance (dx, dy) = confluence * (t.w, t.h).
Inside(r1, r2, t, c) ==
    /\ r1.x * r2.d * t.d * c[2] >= r2.x * r1.d * t.d * c[2] - t.w * c[1] * r1.d * r2.d
    /\ r1.y * r2.d * t.d * c[2] >= r2.y * r1.d * t.d * c[2] - t.h * c[1] * r1.d * r2.d
    /\ (r1.x + r1.w) * r2.d * t.d * c[2]
           <= (r2.x + r2.w) * r1.d * t.d * c[2] + t.w * c[1] * r1.d * r2.d
    /\ (r1.y + r1.h) * r2.d * t.d * c[2]
           <= (r2.y + r2.h) * r1.d * t.d * c[2] + t.h * c[1] * r1.d * r2.d

\* Mutant: the inner loop tests only whether r1 lies inside r2.
RECURSIVE ScanOneWay(_, _, _, _, _)
ScanOneWay(groups, r1, j, numClasses, c) ==
    IF j >= numClasses THEN "end"
    ELSE LET r2 == At(groups, j)
         IN  IF ~r2.defined \/ ~r1.defined THEN "throw"
             ELSE IF Inside(r1, r2, r2, c) THEN "break"
             ELSE ScanOneWay(groups, r1, j + 1, numClasses, c)

\* The inner loop of the filter: how it ends for r1 = groups[i].
RECURSIVE Scan(_, _, _, _, _)
Scan(groups, r1, j, numClasses, c) ==
    IF j >= numClasses THEN "end"
    ELSE LET r2 == At(groups, j)
         IN  IF ~r2.defined \/ ~r1.defined THEN "throw"
             ELSE IF Inside(r1, r2, r2, c) \/ Inside(r2, r1, r2, c) THEN "break"
             ELSE Scan(groups, r1, j + 1, numClasses, c)

RECURSIVE Filter(_, _, _, _, _)
Filter(groups, i, numClasses, filteredGroups, c) ==
    IF i >= numClasses THEN [threw |-> FALSE, value |-> filteredGroups]
    ELSE LET r1 == At(groups, i)
             how == Scan(groups, r1, i + 1, numClasses, c)
         IN  IF how = "throw" THEN [threw |-> TRUE, value |-> <<>>]
             ELSE Filter(groups, i + 1, numClasses,
                         IF how = "end" THEN Append(filteredGroups, r1)
                         ELSE filteredGroups, c)

groupRectangles(rs, minN, confArg) ==
    LET c == Confluence(confArg)
        p == Partition(rs, 1, [i \in 1..Len(rs) |-> 0], 0, c)
        sums == Accumulate(rs, p.labels, 1, [k \in 1..p.numClasses |-> EmptyGroup])
        avg == Average(sums, 0, p.numClasses, minN)
    IN  IF avg.threw THEN [threw |-> TRUE, value |-> <<>>]
        ELSE Filter(avg.groups, 0, p.numClasses, <<>>, c)

\* Rectangles the grouping scenarios draw from: two near-identical ones, one
\* near the second of them only, a large one holding a small one, and one
\* far from all others.
RectPool ==
    {<<0, 0, 4, 4>>, <<1, 0, 4, 4>>, <<3, 0, 4, 4>>, <<0, 0, 8, 8>>, <<3, 3, 2, 2>>,
     <<20, 20, 4, 4>>}

RECURSIVE SeqsUpTo(_, _)
SeqsUpTo(S, n) ==
    IF n = 0 THEN {<<>>}
    ELSE LET T == SeqsUpTo(S, n - 1)
         IN  T \cup {Append(t, e) : t \in {u \in T : Len(u) = n - 1}, e \in S}

InitGroup ==
    /\ pc = "rects"
    /\ rects \in SeqsUpTo(RectPool, MaxRects)
    /\ minNeighbors \in 0..MaxMinNeighbors
    /\ confluence \in {<<0, 1>>, <<1, 2>>}
    /\ grouped = Null
    /\ ImageIdle /\ TableIdle /\ DetectIdle /\ BufferIdle /\ DetectorIdle

GroupRectangles ==
    /\ pc = "rects"
    /\ grouped' = groupRectangles(rects, minNeighbors, confluence)
    /\ pc' = "grouped"
    /\ UNCHANGED <<rects, minNeighbors, confluence, imageVars, tableVars, detectVars, bufferVars, detectorVars>>

NextGroup == GroupRectangles

SpecGroup == InitGroup /\ [][NextGroup]_vars

\* The classes of the rectangles passed, and the mean of every class.
Classes == Partition(rects, 1, [i \in 1..Len(rects) |-> 0], 0, Confluence(confluence))

ClassMean(k) ==
    LET g == Accumulate(rects, Classes.labels, 1,
                        [j \in 1..Classes.numClasses |-> EmptyGroup])[k]
    IN  [g EXCEPT !.d = g.n]

Returned == {grouped.value[k] : k \in 1..Len(grouped.value)}

\* The four displacements of the corners of a and b are within
\* confluence * (min of the widths + min of the heights).
Near(a, b, c) ==
    \A d \in {a[1] - b[1], a[2] - b[2], a[1] + a[3] - b[1] - b[3],
               a[2] + a[4] - b[2] - b[4]} :
        Abs(d) * c[2] <= c[1] * (Min(a[3], b[3]) + Min(a[4], b[4]))

\* The rectangles that no earlier rectangle is near to.
Firsts == {i \in 1..Len(rects) :
              \A j \in 1..(i - 1) : ~Near(rects[i], rects[j], Confluence(confluence))}

\* C22: groupRectangles gives rectangle i the class of the lowest-index
\* earlier rectangle whose four corner displacements are within
\* confluence * (min width + min height), confluence 0.25 when omitted, and
\* a new class when there is none; the labels are 0..numClasses-1 in order
\* of first appearance and the member counts add up to the number of
\* rectangles.
C22_ClassOfFirstSimilar ==
    pc \in {"rects", "grouped"} =>
        LET labels == Classes.labels
            c == Confluence(confluence)
        IN  /\ \A i \in 1..Len(rects) :
                   LET J == {j \in 1..(i - 1) : Near(rects[i], rects[j], c)}
                   IN  IF J = {}
                       THEN labels[i] = Cardinality({k \in Firsts : k < i})
                       ELSE labels[i] = labels[CHOOSE j \in J : \A l \in J : j <= l]
            /\ {labels[i] : i \in 1..Len(rects)} = 0..(Classes.numClasses - 1)
            /\ SumOverSet(1..Classes.numClasses,
                          [k \in 1..Classes.numClasses |-> ClassMean(k).n], FALSE)
                   = Len(rects)

\* The third rectangle is near the first and the second, which are in
\* different classes.
C22_Witness ==
    /\ pc = "grouped"
    /\ Len(rects) >= 3
    /\ Classes.labels[1] = 0 /\ Classes.labels[2] = 1 /\ Classes.labels[3] = 0
    /\ Near(rects[3], rects[2], Confluence(confluence))
    /\ confluence = <<0, 1>>

\* C3: groupRectangles returns normally, and what it returns are well-formed
\* groups with at least minNeighbors members: a class with fewer members is
\* absent, and no class is left holding its sums instead of its means.
C3_OnlyGroupsWithEnoughNeighbors ==
    pc = "grouped" =>
        /\ ~grouped.threw
        /\ \A g \in Returned : g.defined /\ g.n >= minNeighbors /\ g.d = g.n

\* C4: when the classes are two groups that both reach minNeighbors and one
\* lies inside the other (within the tolerance of the filter) but not the
\* other way round, the result is the containing group alone, whichever of the
\* two classes came first in the input.
C4_LargerGroupSurvives ==
    (pc = "grouped" /\ ~grouped.threw /\ Classes.numClasses = 2) =>
        \A small \in 1..2, large \in 1..2 :
            ( /\ ClassMean(1).n >= minNeighbors
              /\ ClassMean(2).n >= minNeighbors
              /\ Inside(ClassMean(small), ClassMean(large), ClassMean(2),
                        Confluence(confluence))
              /\ ~Inside(ClassMean(large), ClassMean(small), ClassMean(2),
                         Confluence(confluence)) )
            => grouped.value = <<ClassMean(large)>>

\* C5: every entry of the list groupRectangles returns is the mean of the
\* rectangles of one class together with their number; one rectangle with
\* minNeighbors = 1 comes back unchanged with count 1, two identical ones with
\* minNeighbors = 2 come back as one group equal to them with count 2.
C5_GroupsAreClassMeans ==
    (pc = "grouped" /\ ~grouped.threw) =>
        /\ \A g \in Returned :
               g.defined /\ \E k \in 1..Classes.numClasses : g = ClassMean(k)
        /\ (Len(rects) = 1 /\ minNeighbors = 1) =>
               grouped.value = <<[defined |-> TRUE, x |-> rects[1][1], y |-> rects[1][2],
                                  w |-> rects[1][3], h |-> rects[1][4], n |-> 1, d |-> 1]>>
        /\ (Len(rects) = 2 /\ rects[1] = rects[2] /\ minNeighbors = 2) =>
               grouped.value = <<[defined |-> TRUE, x |-> 2 * rects[1][1],
                                  y |-> 2 * rects[1][2], w |-> 2 * rects[1][3],
                                  h |-> 2 * rects[1][4], n |-> 2, d |-> 2]>>

---------------------------------------------------------------------------
(* Cascade classifiers.  A generic classifier is the flat number array     *)
(*   [windowWidth, windowHeight, stage...],                                *)
(*   stage = threshold, numTrees, tree...,                                 *)
(*   tree  = tilted, numFeatures, (x, y, width, height, weight)...,        *)
(*           nodeThreshold, left, right.                                   *)
(* The classifiers of the model hold integers, with node thresholds that   *)
(* are powers of two up to sign, so that every quotient the code forms is  *)
(* exact in 32-bit floating point and equals the fraction kept here.       *)
(*                                                                         *)
(* A compiled classifier is one buffer read through a Float32 and a Uint32 *)
(* view.  A word written through the Float32 view is Float(n, d) = n/d, a  *)
(* word written through the Uint32 view is Uint(v), or Packed(lo, hi) for  *)
(* the two 16-bit halves of lo + (hi << 16).                               *)

Float(n, d) == IF d < 0 THEN [k |-> "f", a |-> -n, b |-> -d] ELSE [k |-> "f", a |-> n, b |-> d]
Uint(v) == [k |-> "u", a |-> v, b |-> 1]

\* dstUint32[i] = lo + (hi << 16): a low part above 16 bits carries into the
\* high half, and each half keeps 16 bits.
Packed(lo, hi) == [k |-> "p", a |-> lo % 65536, b |-> (hi + (lo \div 65536)) % 65536]

\* classifierUint32[i] used as a number (a count or an offset).
AsUint(word) == IF word.k = "p" THEN word.a + 65536 * word.b ELSE word.a

\* classifierUint32[i] used as a condition: the bits of a float are zero
\* exactly for +0.
Truthy(word) == word.a # 0

\* Mutant: the high half-word is read through the mask 0x7FFF.
HighHalfMasked(word) ==
    IF word.k = "p" THEN word.b % 32768 ELSE (word.a \div 65536) % 32768

\* packed & 0xFFFF and packed >> 16 & 0xFFFF
LowHalf(word) == IF word.k = "p" THEN word.a ELSE word.a % 65536
HighHalf(word) == IF word.k = "p" THEN word.b ELSE (word.a \div 65536) % 65536

\* Fractions <<n, d>> with d > 0.
FracOf(word) == <<word.a, word.b>>
FracAdd(p, q) == <<p[1] * q[2] + q[1] * p[2], p[2] * q[2]>>
FracScale(p, m) == <<p[1] * m, p[2]>>
FracLess(p, q) == p[1] * q[2] < q[1] * p[2]

\* dst[i] *= inverseClassifierThreshold, with inverseClassifierThreshold = 1 / t
TimesInverse(word, t) == Float(word.a, word.b * t)

\* The features of one tree: three words each.
RECURSIVE CompileFeatures(_, _, _, _, _, _, _)
CompileFeatures(src, dst, srcIndex, dstIndex, kEnd, tilted, width) ==
    IF dstIndex < kEnd
    THEN LET d1 == Store(dst, dstIndex + 1,
                         Uint(src[srcIndex + 1] + src[srcIndex + 2] * width))
             d2 == Store(d1, dstIndex + 2,
                         IF tilted
                         THEN Packed(src[srcIndex + 3] * (width + 1),
                                     src[srcIndex + 4] * (width - 1))
                         ELSE Packed(src[srcIndex + 3], src[srcIndex + 4] * width))
             d3 == Store(d2, dstIndex + 3, Float(src[srcIndex + 5], 1))
         IN  CompileFeatures(src, d3, srcIndex + 5, dstIndex + 3, kEnd, tilted, width)
    ELSE [dst |-> dst, srcIndex |-> srcIndex, dstIndex |-> dstIndex]

\* for (var k = 0; k < numFeaturesTimes3;) { dst[dstIndex - k] *= ...; k += 3; }
RECURSIVE ScaleWeights(_, _, _, _, _)
ScaleWeights(dst, dstIndex, k, numFeaturesTimes3, t) ==
    IF k < numFeaturesTimes3
    THEN ScaleWeights(Store(dst, dstIndex - k, TimesInverse(dst[dstIndex - k], t)),
                      dstIndex, k + 3, numFeaturesTimes3, t)
    ELSE dst

\* Mutant: the leaves are stored in source order whatever the sign of the
\* node threshold.
CompileLeavesNoSwap(src, dst, srcIndex, dstIndex, t) ==
    [dst |-> Store(Store(dst, dstIndex + 1, Float(src[srcIndex + 1], 1)),
                   dstIndex + 2, Float(src[srcIndex + 2], 1)),
     srcIndex |-> srcIndex + 2, dstIndex |-> dstIndex + 2]

\* The two leaf values, swapped when the node threshold is negative.
CompileLeaves(src, dst, srcIndex, dstIndex, t) ==
    IF t < 0
    THEN [dst |-> Store(Store(dst, dstIndex + 2, Float(src[srcIndex + 1], 1)),
                        dstIndex + 1, Float(src[srcIndex + 2], 1)),
          srcIndex |-> srcIndex + 2, dstIndex |-> dstIndex + 2]
    ELSE [dst |-> Store(Store(dst, dstIndex + 1, Float(src[srcIndex + 1], 1)),
                        dstIndex + 2, Float(src[srcIndex + 2], 1)),
          srcIndex |-> srcIndex + 2, dstIndex |-> dstIndex + 2]

RECURSIVE CompileTrees(_, _, _, _, _, _, _)
CompileTrees(src, dst, srcIndex, dstIndex, j, jEnd, width) ==
    IF j < jEnd
    THEN LET tilted == src[srcIndex + 1]
             numFeaturesTimes3 == src[srcIndex + 2] * 3
             d1 == Store(Store(dst, dstIndex + 1, Float(tilted, 1)),
                         dstIndex + 2, Uint(numFeaturesTimes3))
             f == CompileFeatures(src, d1, srcIndex + 2, dstIndex + 2,
                                  dstIndex + 2 + numFeaturesTimes3, tilted # 0, width)
             t == src[f.srcIndex + 1]
             d2 == ScaleWeights(f.dst, f.dstIndex, 0, numFeaturesTimes3, t)
             l == CompileLeaves(src, d2, f.srcIndex + 1, f.dstIndex, t)
         IN  CompileTrees(src, l.dst, l.srcIndex, l.dstIndex, j + 1, jEnd, width)
    ELSE [dst |-> dst, srcIndex |-> srcIndex, dstIndex |-> dstIndex]

RECURSIVE CompileStages(_, _, _, _, _, _)
CompileStages(src, dst, srcIndex, dstIndex, iEnd, width) ==
    IF srcIndex < iEnd
    THEN LET numComplexClassifiers == src[srcIndex + 2]
             d1 == Store(Store(dst, dstIndex + 1, Float(src[srcIndex + 1], 1)),
                         dstIndex + 2, Uint(numComplexClassifiers))
         IN  Once({CompileStages(src, t.dst, t.srcIndex, t.dstIndex, iEnd, width) :
                      t \in {CompileTrees(src, d1, srcIndex + 2, dstIndex + 2, 0,
                                          numComplexClassifiers, width)}})
    ELSE [dst |-> dst, dstIndex |-> dstIndex]

Length(a) == Cardinality(DOMAIN a)

\* dst.subarray(0, n)
Subarray(a, n) == [i \in 0..(n - 1) |-> a[i]]

\* compileClassifier(src, width): the detector passes no scale and no dst.
compileClassifier(src, widthArg) ==
    LET width == widthArg + 1
        dst0 == [i \in 0..(Length(src) - 1) |-> Float(0, 1)]
        d1 == Store(Store(dst0, 0, Uint(src[0])), 1, Uint(src[1]))
    IN  Once({Subarray(c.dst, c.dstIndex + 1) :
                 c \in {CompileStages(src, d1, 1, 1, Length(src) - 1, width)}})

---------------------------------------------------------------------------
(* detect: the sliding window over the tables of one image.                *)

\* The edge density limits of the canny test.
EdgeDensityMin == 60
EdgeDensityMax == 200

FourReads(table, f1, f2, f3) == table[f1] - table[f2] - table[f3] + table[f2 + f3 - f1]

\* Mutant: the square root of the variance, whatever the variance.
StdSquaredOfVariance(variance) == variance

\* std = variance > 1 ? Math.sqrt(variance) : 1, kept as its square.
StdSquared(variance) == IF variance > 1 THEN variance ELSE 1

\* simpleClassifierSum > std
GreaterThanStd(sum, variance) ==
    /\ sum[1] > 0
    /\ sum[1] * sum[1] > sum[2] * sum[2] * StdSquared(variance)

\* The features of one node: the weighted sum of their rectangle sums.
RECURSIVE EvalFeatures(_, _, _, _, _, _)
EvalFeatures(classifier, table, i, kEnd, satIndex, simpleClassifierSum) ==
    IF i < kEnd
    THEN LET f1 == satIndex + AsUint(classifier[i + 1])
             packed == classifier[i + 2]
             f2 == f1 + LowHalf(packed)
             f3 == f1 + HighHalf(packed)
         IN  EvalFeatures(classifier, table, i + 3, kEnd, satIndex,
                 FracAdd(simpleClassifierSum,
                         FracScale(FracOf(classifier[i + 3]), FourReads(table, f1, f2, f3))))
    ELSE [i |-> i, sum |-> simpleClassifierSum]

\* i + (simpleClassifierSum > std ? 2 : 1)
LeafIndex(i, simpleClassifierSum, variance) ==
    i + (IF GreaterThanStd(simpleClassifierSum, variance) THEN 2 ELSE 1)

\* The trees of one stage: the sum of the leaves they select.
RECURSIVE EvalTrees(_, _, _, _, _, _, _, _, _)
EvalTrees(classifier, sat, rsat, i, j, jEnd, satIndex, variance, complexClassifierSum) ==
    IF j < jEnd
    THEN LET tilted == Truthy(classifier[i + 1])
             kEnd == (i + 1) + AsUint(classifier[i + 2])
             f == EvalFeatures(classifier, IF tilted THEN rsat ELSE sat, i + 2, kEnd,
                               satIndex, <<0, 1>>)
             leaf == classifier[LeafIndex(f.i, f.sum, variance)]
         IN  EvalTrees(classifier, sat, rsat, f.i + 2, j + 1, jEnd, satIndex, variance,
                       FracAdd(complexClassifierSum, FracOf(leaf)))
    ELSE [i |-> i, sum |-> complexClassifierSum]

\* Mutant: a stage rejects when its sum is at or below the threshold.
StageRejectsAtOrBelow(complexClassifierSum, complexClassifierThreshold) ==
    ~FracLess(complexClassifierThreshold, complexClassifierSum)

\* if (complexClassifierSum < complexClassifierThreshold)
StageRejects(complexClassifierSum, complexClassifierThreshold) ==
    FracLess(complexClassifierSum, complexClassifierThreshold)

\* The stages in cascade order, up to the first that rejects.  sums lists the
\* stage sums formed, one per stage evaluated.
RECURSIVE EvalStages(_, _, _, _, _, _, _, _)
EvalStages(classifier, sat, rsat, i, iEnd, satIndex, variance, sums) ==
    IF i < iEnd
    THEN LET complexClassifierThreshold == FracOf(classifier[i + 1])
             t == EvalTrees(classifier, sat, rsat, i + 2, 0, AsUint(classifier[i + 2]),
                            satIndex, variance, <<0, 1>>)
         IN  IF StageRejects(t.sum, complexClassifierThreshold)
             THEN [found |-> FALSE, sums |-> Append(sums, t.sum)]
             ELSE EvalStages(classifier, sat, rsat, t.i, iEnd, satIndex, variance,
                             Append(sums, t.sum))
    ELSE [found |-> TRUE, sums |-> sums]

\* The canny test of one window: TRUE when the window is skipped.
CannySkips(cannySat, satIndex, satIndex1, satIndex2, satIndex3, area) ==
    /\ cannySat # Null
    /\ LET edges == cannySat[satIndex] - cannySat[satIndex1] - cannySat[satIndex2]
                        + cannySat[satIndex3]
       IN  edges < EdgeDensityMin * area \/ edges > EdgeDensityMax * area

\* The body of the inner loop for the window at satIndex.
EvalWindow(sat, rsat, ssat, cannySat, satIndex, width, classifier) ==
    LET windowWidth == AsUint(classifier[0])
        windowHeight == AsUint(classifier[1])
        area == windowWidth * windowHeight
        satIndex1 == satIndex + windowWidth
        satIndex2 == satIndex + windowHeight * width
        satIndex3 == satIndex2 + windowWidth
    IN  IF CannySkips(cannySat, satIndex, satIndex1, satIndex2, satIndex3, area)
        THEN [skipped |-> TRUE, found |-> FALSE, sums |-> <<>>, variance |-> 0,
              stdSquared |-> 0]
        ELSE LET mean == sat[satIndex] - sat[satIndex1] - sat[satIndex2] + sat[satIndex3]
                 variance == (ssat[satIndex] - ssat[satIndex1] - ssat[satIndex2]
                                 + ssat[satIndex3]) * area - mean * mean
             IN  Once({[skipped |-> FALSE, found |-> r.found, sums |-> r.sums,
                        variance |-> variance, stdSquared |-> StdSquared(variance)] :
                          r \in {EvalStages(classifier, sat, rsat, 1,
                                            Length(classifier) - 1, satIndex, variance,
                                            <<>>)}})

\* Mutant: rects starts with a rectangle in it.
DetectBeginStale == [x |-> 0, y |-> 0, satIndex |-> 0, rects |-> <<<<0, 0, 0, 0>>>>,
                     trace |-> <<>>, done |-> FALSE]

\* The locals of detect when it enters its loops.
DetectBegin == [x |-> 0, y |-> 0, satIndex |-> 0, rects |-> <<>>, trace |-> <<>>,
                done |-> FALSE]

\* Mutant: the loops stop one window short of the image border.
InRangeStrict(pos, windowSize, size) == pos + windowSize < size

\* x + windowWidth < width, with width already the image width plus one.
InRange(pos, windowSize, size) == pos + windowSize < size + 1

\* Mutant: a skipped window leaves the running index where it is.
SkipInPlace(satIndex, widthTimesStep) == satIndex

\* satIndex += widthTimesStep; continue;
Skip(satIndex, widthTimesStep) == satIndex + widthTimesStep

\* One turn of the loops of detect: the loop tests, then either the next
\* column, or the window at (x, y).  trace lists the windows evaluated.
DetectStep(l, sat, rsat, ssat, cannySat, widthArg, heightArg, step, classifier) ==
    LET width == widthArg + 1
        windowWidth == AsUint(classifier[0])
        windowHeight == AsUint(classifier[1])
    IN  IF ~InRange(l.x, windowWidth, widthArg) THEN [l EXCEPT !.done = TRUE]
        ELSE IF ~InRange(l.y, windowHeight, heightArg)
        THEN [l EXCEPT !.x = l.x + step, !.y = 0, !.satIndex = l.x + step]
        ELSE Once({
                 [l EXCEPT
                    !.rects = IF w.found
                              THEN Append(@, <<l.x, l.y, windowWidth, windowHeight>>)
                              ELSE @,
                    !.trace = Append(@, [x |-> l.x, y |-> l.y, satIndex |-> l.satIndex,
                                         skipped |-> w.skipped, found |-> w.found,
                                         sums |-> w.sums, variance |-> w.variance,
                                         stdSquared |-> w.stdSquared]),
                    !.satIndex = IF w.skipped THEN Skip(l.satIndex, width * step)
                                 ELSE l.satIndex + width * step,
                    !.y = l.y + step] :
                 w \in {EvalWindow(sat, rsat, ssat, cannySat, l.satIndex, width,
                                   classifier)}})

RECURSIVE DetectRun(_, _, _, _, _, _, _, _, _)
DetectRun(l, sat, rsat, ssat, cannySat, width, height, step, classifier) ==
    IF l.done THEN l
    ELSE DetectRun(DetectStep(l, sat, rsat, ssat, cannySat, width, height, step, classifier),
                   sat, rsat, ssat, cannySat, width, height, step, classifier)

\* detect(sat, rsat, ssat, cannySat, width, height, step, classifier)
detect(sat, rsat, ssat, cannySat, width, height, step, classifier) ==
    DetectRun(DetectBegin, sat, rsat, ssat, cannySat, width, height, step, classifier).rects

\* A JavaScript array from the list of its elements.
Arr(seq) == [i \in 0..(Len(seq) - 1) |-> seq[i + 1]]

\* Classifiers over a 2 x 2 window.
\* One stage, one tree: twice the left column minus twice the right column.
CascadeEdge ==
    Arr(<<2, 2,
          1, 1,
             0, 2, 0, 0, 1, 2, 2,  1, 0, 1, 2, -2,  1, 0, 1>>)

\* Two stages; the node of the second (top row minus bottom row) has a
\* negative threshold.
CascadeTwoStage ==
    Arr(<<2, 2,
          1, 1,
             0, 2, 0, 0, 1, 2, 2,  1, 0, 1, 2, -2,  1, 0, 1,
          1, 1,
             0, 2, 0, 0, 2, 1, 2,  0, 1, 2, 1, -2,  -1, 1, 0>>)

\* One stage of two trees whose leaves add up to -1, 0, 1 or 2, then a stage
\* on the top left pixel.
CascadeTwoTrees ==
    Arr(<<2, 2,
          1, 2,
             0, 2, 0, 0, 1, 2, 2,  1, 0, 1, 2, -2,  1, 0, 1,
             0, 2, 0, 0, 2, 1, 2,  0, 1, 2, 1, -2,  2, -1, 1,
          1, 1,
             0, 1, 0, 0, 1, 1, 4,  2, 0, 1>>)

\* One stage, one tilted feature whose left corner lies on the window border.
CascadeTilted ==
    Arr(<<2, 2,
          1, 1,
             1, 1, 1, 0, 1, 1, 2,  1, 0, 1>>)

CascadePool == {CascadeEdge, CascadeTwoStage, CascadeTwoTrees, CascadeTilted}

\* Edge images for the canny table: no edge at all, every pixel at one
\* level, or every fourth pixel lit.
EdgeLevel == 100
EdgeLit == 480
EdgeImages(w, h) ==
    {[i \in 0..(w * h - 1) |-> 0],
     [i \in 0..(w * h - 1) |-> EdgeLevel],
     [i \in 0..(w * h - 1) |-> IF i % 4 = 0 THEN EdgeLit ELSE 0]}

InitDetect ==
    /\ pc = "image"
    /\ imageWidth \in 1..MaxDim
    /\ imageHeight \in 1..MaxDim
    /\ image \in ImagesLit(imageWidth * imageHeight, MaxLit)
    /\ TableIdle /\ GroupIdle /\ BufferIdle /\ DetectorIdle
    /\ cascade \in CascadePool
    /\ compiled = <<>>
    /\ stepSize \in 1..MaxStep
    /\ cannySatBuf \in {Null} \cup
          {computeSat(e, imageWidth, imageHeight, Null) :
              e \in EdgeImages(imageWidth, imageHeight)}
    /\ loc = Null

\* The caller builds the tables and the compiled classifier, and detect
\* enters its loops.
DetectCall ==
    /\ pc = "image"
    /\ satBuf' = computeSat(image, imageWidth, imageHeight, satBuf)
    /\ ssatBuf' = computeSquaredSat(image, imageWidth, imageHeight, ssatBuf)
    /\ rsatBuf' = computeRsat(image, imageWidth, imageHeight, rsatBuf)
    /\ compiled' = compileClassifier(cascade, imageWidth)
    /\ loc' = DetectBegin
    /\ pc' = "detect"
    /\ UNCHANGED <<imageVars, groupVars, cascade, stepSize, cannySatBuf, bufferVars, detectorVars>>

\* One turn of the loops of detect.
DetectTurn ==
    /\ pc = "detect"
    /\ ~loc.done
    /\ loc' = DetectStep(loc, satBuf, rsatBuf, ssatBuf, cannySatBuf, imageWidth,
                         imageHeight, stepSize, compiled)
    /\ UNCHANGED <<pc, imageVars, tableVars, groupVars, cascade, compiled, stepSize,
                   cannySatBuf, bufferVars, detectorVars>>

\* return rects;
DetectReturn ==
    /\ pc = "detect"
    /\ loc.done
    /\ pc' = "returned"
    /\ UNCHANGED <<imageVars, tableVars, groupVars, detectVars, bufferVars, detectorVars>>

NextDetect == DetectCall \/ DetectTurn \/ DetectReturn

SpecDetect == InitDetect /\ [][NextDetect]_vars

\* The windows detect has visited, and whether one is in the returned list.
Visited == {<<loc.trace[i].x, loc.trace[i].y>> : i \in 1..Len(loc.trace)}
Reported(x, y) ==
    \E i \in 1..Len(loc.rects) :
        loc.rects[i] = <<x, y, AsUint(compiled[0]), AsUint(compiled[1])>>

\* The multiples of step from 0 to last.
Multiples(step, last) == {p \in 0..Max(last, 0) : p % step = 0 /\ p <= last}

\* C7: detect evaluates exactly the windows whose corner (x, y) is a multiple
\* of step in both axes with 0 <= x < width - windowWidth and
\* 0 <= y < height - windowHeight; no window with x = width - windowWidth or
\* y = height - windowHeight is evaluated or reported.
C7_WindowsStopBeforeBorder ==
    pc = "returned" =>
        LET lastX == imageWidth - cascade[0] - 1
            lastY == imageHeight - cascade[1] - 1
        IN  /\ Visited = Multiples(stepSize, lastX) \X Multiples(stepSize, lastY)
            /\ \A i \in 1..Len(loc.trace) :
                   /\ loc.trace[i].x # lastX + 1
                   /\ loc.trace[i].y # lastY + 1

\* C7 amended: detect evaluates, each once and column by column, exactly the
\* windows whose corner (x, y) is a multiple of step in both axes with
\* 0 <= x <= width - windowWidth and 0 <= y <= height - windowHeight: the
\* windows that touch the right or bottom border of the image are evaluated,
\* and reported when they pass; every reported window is one of them.
C7_WindowsReachBorder ==
    pc = "returned" =>
        LET lastX == imageWidth - cascade[0]
            lastY == imageHeight - cascade[1]
        IN  /\ Visited = Multiples(stepSize, lastX) \X Multiples(stepSize, lastY)
            /\ Len(loc.trace) = Cardinality(Visited)
            /\ \A i, j \in 1..Len(loc.trace) :
                   i < j => \/ loc.trace[i].x < loc.trace[j].x
                            \/ /\ loc.trace[i].x = loc.trace[j].x
                               /\ loc.trace[i].y < loc.trace[j].y
            /\ \A i \in 1..Len(loc.rects) :
                   /\ <<loc.rects[i][1], loc.rects[i][2]>> \in Visited
                   /\ loc.rects[i][3] = cascade[0]
                   /\ loc.rects[i][4] = cascade[1]

\* A 3 x 3 image stepped by 1 under a 2 x 2 window: the window at (1, 1)
\* touches both borders, is evaluated and is reported.
C7_Witness ==
    /\ pc = "returned"
    /\ imageWidth = 3 /\ imageHeight = 3 /\ stepSize = 1
    /\ <<1, 1>> \in Visited
    /\ Reported(1, 1)
    /\ Cardinality(Visited) = 4

\* The sum and the threshold of every stage for the window at satIndex,
\* whether detect gets that far or not.
RECURSIVE AllStages(_, _, _, _, _, _, _, _)
AllStages(classifier, sat, rsat, i, iEnd, satIndex, variance, acc) ==
    IF i < iEnd
    THEN LET t == EvalTrees(classifier, sat, rsat, i + 2, 0, AsUint(classifier[i + 2]),
                            satIndex, variance, <<0, 1>>)
         IN  AllStages(classifier, sat, rsat, t.i, iEnd, satIndex, variance,
                       Append(acc, [sum |-> t.sum, threshold |-> FracOf(classifier[i + 1])]))
    ELSE acc

StagesOf(t) ==
    AllStages(compiled, satBuf, rsatBuf, 1, Length(compiled) - 1, t.satIndex, t.variance, <<>>)

Below(stage) == FracLess(stage.sum, stage.threshold)

\* C8: for each window whose cascade is evaluated, the stages are evaluated
\* in cascade order; the window is reported as (x, y, windowWidth,
\* windowHeight) iff no stage sum is strictly below its threshold (equality
\* passes); once a stage sum is strictly below its threshold no later stage
\* is evaluated and the window is not reported.
C8_CascadeOrderAndStrictReject ==
    pc \in {"detect", "returned"} =>
        \A i \in 1..Len(loc.trace) :
            LET t == loc.trace[i]
                stages == StagesOf(t)
                failing == {k \in 1..Len(stages) : Below(stages[k])}
                evaluated == IF failing = {} THEN Len(stages)
                             ELSE CHOOSE k \in failing : \A m \in failing : k <= m
            IN  ~t.skipped =>
                    /\ t.found <=> failing = {}
                    /\ Reported(t.x, t.y) <=> t.found
                    /\ Len(t.sums) = evaluated
                    /\ \A k \in 1..evaluated : t.sums[k] = stages[k].sum

\* One run of the two-stage cascade in which one window passes with both
\* stage sums equal to their thresholds, one is rejected by the first stage
\* (the second is not evaluated) and one by the second.
C8_Witness ==
    /\ pc = "returned"
    /\ cascade = CascadeTwoStage
    /\ \E i, j, k \in 1..Len(loc.trace) :
          /\ loc.trace[i].found /\ loc.trace[i].sums = <<<<1, 1>>, <<1, 1>>>>
          /\ Reported(loc.trace[i].x, loc.trace[i].y)
          /\ ~loc.trace[j].skipped /\ ~loc.trace[j].found /\ Len(loc.trace[j].sums) = 1
          /\ ~loc.trace[k].skipped /\ ~loc.trace[k].found /\ Len(loc.trace[k].sums) = 2

---------------------------------------------------------------------------
(* mirrorImage.  A dst argument is Null when none is passed, and otherwise *)
(* a record: same tells whether it is the very array passed as src.        *)

ArrayTypes == {"Uint32Array", "Uint8ClampedArray"}

\* An array of n elements left over from an earlier use.
StaleArray(n) == [i \in 0..(n - 1) |-> StaleValue]

DstChoices(n) ==
    {Null, [same |-> TRUE, type |-> "", data |-> <<>>]} \cup
    {[same |-> FALSE, type |-> t, data |-> StaleArray(n)] : t \in ArrayTypes}

\* dst[i] = v, seen through src too when both are one array.
StoreDst(mem, i, v) ==
    [mem EXCEPT !.dst = Store(@, i, v),
                !.src = IF mem.same THEN Store(@, i, v) ELSE @]

\* Mutant: the inner loop starts one column lower.
HalfWidthLessOne(srcWidth) == srcWidth \div 2 - 1

\* srcWidth >> 1
HalfWidth(srcWidth) == srcWidth \div 2

\* for (var x = (srcWidth >> 1); x >= 0; --x) { ... }
RECURSIVE MirrorRow(_, _, _, _)
MirrorRow(mem, index, srcWidth, x) ==
    IF x >= 0
    THEN LET swap == mem.src[index + x]
             m1 == StoreDst(mem, index + x, mem.src[index + srcWidth - 1 - x])
             m2 == StoreDst(m1, index + srcWidth - 1 - x, swap)
         IN  MirrorRow(m2, index, srcWidth, x - 1)
    ELSE mem

RECURSIVE MirrorRows(_, _, _, _, _)
MirrorRows(mem, index, srcWidth, srcHeight, y) ==
    IF y < srcHeight
    THEN MirrorRows(MirrorRow(mem, index, srcWidth, HalfWidth(srcWidth)),
                    index + srcWidth, srcWidth, srcHeight, y + 1)
    ELSE mem

\* mirrorImage(src, srcWidth, srcHeight, dst): src and dst as they are when it
\* returns, and the constructor of dst.
mirrorImage(src, srcType, srcWidth, srcHeight, dst) ==
    LET mem == [src |-> src,
                dst |-> IF dst = Null THEN NewArray(srcWidth * srcHeight)
                        ELSE IF dst.same THEN src ELSE dst.data,
                same |-> dst # Null /\ dst.same]
        m == MirrorRows(mem, 0, srcWidth, srcHeight, 0)
    IN  [src |-> m.src, dst |-> m.dst,
         type |-> IF dst = Null \/ dst.same THEN srcType ELSE dst.type]

InitMirror ==
    /\ pc = "image"
    /\ imageWidth \in 1..MaxDim
    /\ imageHeight \in 1..MaxDim
    /\ image \in ImagesLit(imageWidth * imageHeight, MaxLit)
    /\ imageType \in ArrayTypes
    /\ dstPassed \in DstChoices(imageWidth * imageHeight)
    /\ rescaleFactor = <<1, 1>> /\ dstBuf = Null /\ again = Null
    /\ TableIdle /\ GroupIdle /\ DetectIdle /\ DetectorIdle

\* dstBuf = mirrorImage(image, imageWidth, imageHeight, dstPassed)
MirrorImage ==
    /\ pc = "image"
    /\ LET r == mirrorImage(image, imageType, imageWidth, imageHeight, dstPassed)
       IN  /\ image' = r.src
           /\ dstBuf' = [type |-> r.type, data |-> r.dst]
    /\ pc' = "mirrored"
    /\ UNCHANGED <<imageWidth, imageHeight, tableVars, groupVars, detectVars, imageType,
                   rescaleFactor, dstPassed, again, detectorVars>>

\* again = mirrorImage(dstBuf, imageWidth, imageHeight)
MirrorBack ==
    /\ pc = "mirrored"
    /\ LET r == mirrorImage(dstBuf.data, dstBuf.type, imageWidth, imageHeight, Null)
       IN  /\ dstBuf' = [dstBuf EXCEPT !.data = r.src]
           /\ again' = [type |-> r.type, data |-> r.dst]
           /\ image' = IF dstPassed # Null /\ dstPassed.same THEN r.src ELSE image
    /\ pc' = "twice"
    /\ UNCHANGED <<imageWidth, imageHeight, tableVars, groupVars, detectVars, imageType,
                   rescaleFactor, dstPassed, detectorVars>>

NextMirror == MirrorImage \/ MirrorBack

SpecMirror == InitMirror /\ [][NextMirror]_vars

\* The horizontal flip of an image.
Flip(img, w, h) == [i \in 0..(w * h - 1) |-> img[(i \div w) * w + (w - 1 - (i % w))]]

\* C10: for every width (odd or even) and height, mirrorImage called without
\* a destination returns dst with dst[y][x] = src[y][w-1-x] and leaves src
\* unchanged, so that mirroring the result again gives back the image.
C10_MirrorIsAFlip ==
    [][dstPassed = Null =>
          /\ image' = image
          /\ pc' = "mirrored" =>
                 /\ dstBuf'.data = Flip(image, imageWidth, imageHeight)
                 /\ dstBuf'.type = imageType
          /\ pc' = "twice" => dstBuf' = dstBuf /\ again'.data = image]_vars

\* A 2 x 2 image (even width) with two different lit pixels, mirrored twice
\* without a destination.
C10_Witness ==
    /\ pc = "twice"
    /\ dstPassed = Null
    /\ imageWidth = 2 /\ imageHeight = 2
    /\ image[0] = 1 /\ image[3] = 2
    /\ dstBuf.data[1] = 1 /\ dstBuf.data[2] = 2
    /\ again.data = image

\* The same for the odd width 3: the middle column stays in place.
C10_WitnessOdd ==
    /\ pc = "twice"
    /\ dstPassed = Null
    /\ imageWidth = 3 /\ imageHeight = 1
    /\ image[0] = 1 /\ image[1] = 2
    /\ dstBuf.data[2] = 1 /\ dstBuf.data[1] = 2

---------------------------------------------------------------------------
(* JavaScript numbers.  A non-negative Number is a binary64 value m * 2^e  *)
(* with m = 0 or 2^52 <= m < 2^53; m is kept as a list of limbs, least     *)
(* significant first, because it does not fit a 32-bit integer.  Each      *)
(* operation computes the exact result and rounds it to nearest, ties to   *)
(* even, as IEEE 754 prescribes.                                           *)

LimbBits == 15
Limb == 2 ^ LimbBits
Precision == 53

Digit(a, i) == IF i \in 1..Len(a) THEN a[i] ELSE 0

\* The limbs of a without the zero limbs at its top.
BigTrim(a) ==
    IF a = <<>> THEN <<>>
    ELSE LET n == CHOOSE k \in 0..Len(a) :
                      (k = 0 \/ a[k] # 0) /\ \A j \in (k + 1)..Len(a) : a[j] = 0
         IN  SubSeq(a, 1, n)

\* n < 2^31 takes three limbs at most.
BigOf(n) ==
    IF n = 0 THEN <<>>
    ELSE BigTrim(<<n % Limb, (n \div Limb) % Limb, n \div (Limb * Limb)>>)

BigToInt(a) == Digit(a, 1) + Limb * Digit(a, 2) + Limb * Limb * Digit(a, 3)

\* The carry into limb i of a + b: a pair of limbs below overflows, and
\* every pair between it and i passes the carry on.
Carry(a, b, i) ==
    IF \E j \in 1..(i - 1) :
           /\ Digit(a, j) + Digit(b, j) >= Limb
           /\ \A k \in (j + 1)..(i - 1) : Digit(a, k) + Digit(b, k) = Limb - 1
    THEN 1 ELSE 0

BigAdd(a, b) ==
    IF a = <<>> THEN BigTrim(b)
    ELSE IF b = <<>> THEN BigTrim(a)
    ELSE BigTrim([i \in 1..(Max(Len(a), Len(b)) + 1) |->
                     (Digit(a, i) + Digit(b, i) + Carry(a, b, i)) % Limb])

\* The borrow from limb i of a - b.
Borrow(a, b, i) ==
    IF \E j \in 1..(i - 1) :
           /\ Digit(a, j) < Digit(b, j)
           /\ \A k \in (j + 1)..(i - 1) : Digit(a, k) = Digit(b, k)
    THEN 1 ELSE 0

\* a - b for a >= b
BigSub(a, b) ==
    IF b = <<>> THEN BigTrim(a)
    ELSE BigTrim([i \in 1..Len(a) |->
                     (Digit(a, i) - Digit(b, i) - Borrow(a, b, i) + Limb) % Limb])

\* -1, 0 or 1 as a is below, equal to or above b
BigCmp(a, b) ==
    IF Len(a) < Len(b) THEN -1
    ELSE IF Len(a) > Len(b) THEN 1
    ELSE LET D == {i \in 1..Len(a) : a[i] # b[i]}
         IN  IF D = {} THEN 0
             ELSE LET top == CHOOSE i \in D : \A j \in D : j <= i
                  IN  IF a[top] < b[top] THEN -1 ELSE 1

\* a * k for 0 <= k < Limb: the low halves of the limb products, plus their
\* high halves one limb up.
BigTimes(a, k) ==
    IF a = <<>> \/ k = 0 THEN <<>>
    ELSE BigAdd([i \in 1..Len(a) |-> (a[i] * k) % Limb],
                <<0>> \o [i \in 1..Len(a) |-> (a[i] * k) \div Limb])

Zeros(n) == [i \in 1..n |-> 0]

\* a * b, one limb of b at a time.
RECURSIVE BigMulFrom(_, _, _)
BigMulFrom(a, b, st) ==
    IF st.i > Len(b) THEN st.sum
    ELSE BigMulFrom(a, b, [i |-> st.i + 1,
                           sum |-> BigAdd(st.sum, Zeros(st.i - 1) \o BigTimes(a, b[st.i]))])

BigMul(a, b) ==
    IF a = <<>> \/ b = <<>> THEN <<>> ELSE BigMulFrom(a, b, [i |-> 1, sum |-> <<>>])

\* a * 2^k
BigShl(a, k) ==
    IF a = <<>> THEN <<>>
    ELSE Zeros(k \div LimbBits) \o BigTimes(a, 2 ^ (k % LimbBits))

\* a \div 2^k
BigShr(a, k) ==
    LET skip == k \div LimbBits
        bits == k % LimbBits
    IN  IF skip >= Len(a) THEN <<>>
        ELSE BigTrim([i \in 1..(Len(a) - skip) |->
                         Digit(a, i + skip) \div (2 ^ bits)
                             + (Digit(a, i + skip + 1) % (2 ^ bits))
                                   * 2 ^ (LimbBits - bits)])

\* The number of bits of a limb.
BitLength(n) == CHOOSE k \in 0..LimbBits : 2 ^ k > n /\ (k = 0 \/ 2 ^ (k - 1) <= n)

BigBits(a) == IF a = <<>> THEN 0 ELSE LimbBits * (Len(a) - 1) + BitLength(a[Len(a)])

BigOdd(a) == a # <<>> /\ a[1] % 2 = 1

\* The largest d with b * d <= a, for a < b * Limb and the top limb of b at
\* least Limb / 2: the two top limbs of a over the top limb of b are d, d + 1
\* or d + 2.
QuotientDigit(a, b) ==
    LET n == Len(b)
        estimate == Min((Digit(a, n + 1) * Limb + Digit(a, n)) \div b[n], Limb - 1)
    IN  IF BigCmp(BigTimes(b, estimate), a) <= 0 THEN estimate
        ELSE IF BigCmp(BigTimes(b, estimate - 1), a) <= 0 THEN estimate - 1
        ELSE estimate - 2

\* The step that finds the digit d of the quotient under the remainder r.
DivDigit(b, st, r, d) ==
    [i |-> st.i - 1, q |-> BigTrim(<<d>> \o st.q), r |-> BigSub(r, BigTimes(b, d))]

\* One step of the long division of a by b: the limb a[st.i] is brought down.
DivStep(a, b, st) ==
    LET r == BigTrim(<<a[st.i]>> \o st.r)
    IN  DivDigit(b, st, r, QuotientDigit(r, b))

\* The long division of a by b from the top limb of a down.
RECURSIVE BigDivFrom(_, _, _)
BigDivFrom(a, b, st) ==
    IF st.i = 0 THEN st ELSE BigDivFrom(a, b, DivStep(a, b, st))

\* a \div b for b > 0: both are shifted so that the top limb of b is at
\* least Limb / 2.
BigDivNormal(a, b) == BigDivFrom(a, b, [i |-> Len(a), q |-> <<>>, r |-> <<>>]).q

BigDiv(a, b) ==
    LET shift == LimbBits - BitLength(b[Len(b)])
    IN  IF BigCmp(a, b) < 0 THEN <<>>
        ELSE BigDivNormal(BigShl(a, shift), BigShl(b, shift))

DblZero == [m |-> <<>>, e |-> 0]

\* r * 2^e for r of Precision bits, or of one more after a carry out of the
\* top bit (r is a power of two then).
DblNormal(r, e) ==
    IF BigBits(r) > Precision THEN [m |-> BigShr(r, 1), e |-> e + 1] ELSE [m |-> r, e |-> e]

\* q, or the next integer: half is -1, 0 or 1 as the part cut off is below,
\* equal to or above one half.
RoundHalfEven(q, half) ==
    IF half > 0 \/ (half = 0 /\ BigOdd(q)) THEN BigAdd(q, <<1>>) ELSE q

\* s * 2^e with the k low bits of s cut off, q the bits kept.
DblCut(s, e, k, q) ==
    DblNormal(RoundHalfEven(q, BigCmp(BigSub(s, BigShl(q, k)), BigShl(<<1>>, k - 1))),
              e + k)

\* s * 2^e for s # 0 with k bits more than fit.
DblFit(s, e, k) ==
    IF k <= 0 THEN [m |-> BigShl(s, -k), e |-> e + k] ELSE DblCut(s, e, k, BigShr(s, k))

\* The value s * 2^e rounded to binary64.
DblRound(s, e) == IF s = <<>> THEN DblZero ELSE DblFit(s, e, BigBits(s) - Precision)

DblOf(n) == IF n = 0 THEN DblZero ELSE DblRound(BigOf(n), 0)

DblAdd(a, b) ==
    IF a.m = <<>> THEN b
    ELSE IF b.m = <<>> THEN a
    ELSE LET e == Min(a.e, b.e)
         IN  DblRound(BigAdd(BigShl(a.m, a.e - e), BigShl(b.m, b.e - e)), e)

DblMul(a, b) ==
    IF a.m = <<>> \/ b.m = <<>> THEN DblZero ELSE DblRound(BigMul(a.m, b.m), a.e + b.e)

\* a / b for b > 0: the quotient to 57 bits, and a last bit that tells
\* whether anything is left.
DblDiv(a, b) ==
    LET n == BigShl(a.m, Precision + 3)
    IN  Once({DblRound(BigAdd(BigTimes(q, 2), IF BigMul(q, b.m) = n THEN <<>> ELSE <<1>>),
                       e) :
                 e \in {a.e - b.e - (Precision + 4)}, q \in {BigDiv(n, b.m)}})

DblLess(a, b) ==
    IF b.m = <<>> THEN FALSE
    ELSE IF a.m = <<>> THEN TRUE
    ELSE LET e == Min(a.e, b.e)
         IN  BigCmp(BigShl(a.m, a.e - e), BigShl(b.m, b.e - e)) < 0

\* ~~a for 0 <= a < 2^31
DblTrunc(a) ==
    IF a.e >= 0 THEN BigToInt(BigShl(a.m, a.e)) ELSE BigToInt(BigShr(a.m, -a.e))

\* The Number a decimal literal n/d denotes.
NumberOf(p) == DblDiv(DblOf(p[1]), DblOf(p[2]))

---------------------------------------------------------------------------
(* rescaleImage                                                            *)

\* src[i]: a read past the end gives undefined, which a typed array stores
\* as 0.
Load(a, i) == IF i \in DOMAIN a THEN a[i] ELSE 0

\* for (srcIndex = ~~(x * factor), ...; srcIndex < srcEnd; srcIndex += srcWidth)
\* l holds the arrays and the two indices of the loop.
RECURSIVE RescaleColumn(_, _, _)
RescaleColumn(l, srcWidth, dstWidth) ==
    IF l.srcIndex < l.srcEnd
    THEN RescaleColumn([mem |-> StoreDst(l.mem, l.dstIndex, Load(l.mem.src, l.srcIndex)),
                        srcIndex |-> l.srcIndex + srcWidth,
                        srcEnd |-> l.srcEnd,
                        dstIndex |-> l.dstIndex + dstWidth],
                       srcWidth, dstWidth)
    ELSE l.mem

\* var dstIndex = x; srcIndex = ~~(x * factor), srcEnd = srcIndex + srcLength
ColumnBegin(mem, x, srcIndex, srcLength) ==
    [mem |-> mem, srcIndex |-> srcIndex, srcEnd |-> srcIndex + srcLength, dstIndex |-> x]

\* for (var x = 0; x < dstWidth; ++x) { ... }
RECURSIVE RescaleColumns(_, _, _, _, _)
RescaleColumns(l, srcWidth, srcLength, dstWidth, factor) ==
    IF l.x < dstWidth
    THEN RescaleColumns(
             [mem |-> RescaleColumn(
                          ColumnBegin(l.mem, l.x, DblTrunc(DblMul(DblOf(l.x), factor)),
                                      srcLength),
                          srcWidth, dstWidth),
              x |-> l.x + 1],
             srcWidth, srcLength, dstWidth, factor)
    ELSE l.mem

\* for (srcIndex = ~~y * dstWidth, ...; srcIndex < srcEnd; ++srcIndex)
RECURSIVE RescaleRow(_)
RescaleRow(l) ==
    IF l.srcIndex < l.srcEnd
    THEN RescaleRow([mem |-> StoreDst(l.mem, l.dstIndex, Load(l.mem.dst, l.srcIndex)),
                     srcIndex |-> l.srcIndex + 1,
                     srcEnd |-> l.srcEnd,
                     dstIndex |-> l.dstIndex + 1])
    ELSE l.mem

\* srcIndex = ~~y * dstWidth, srcEnd = srcIndex + dstWidth
RowBegin(mem, dstIndex, srcIndex, dstWidth) ==
    [mem |-> mem, srcIndex |-> srcIndex, srcEnd |-> srcIndex + dstWidth,
     dstIndex |-> dstIndex]

\* One turn of  for (var y = 0, yEnd = ...; y < yEnd; y += factor) { ... }
RescaleRowStep(st, dstWidth, factor) ==
    [mem |-> RescaleRow(RowBegin(st.mem, st.dstIndex, DblTrunc(st.y) * dstWidth,
                                 dstWidth)),
     dstIndex |-> st.dstIndex + dstWidth,
     y |-> DblAdd(st.y, factor),
     rows |-> st.rows + 1]

RECURSIVE RescaleRows(_, _, _, _)
RescaleRows(st, yEnd, dstWidth, factor) ==
    IF DblLess(st.y, yEnd)
    THEN RescaleRows(RescaleRowStep(st, dstWidth, factor), yEnd, dstWidth, factor)
    ELSE st

\* rescaleImage(src, srcWidth, srcHeight, factor, dst): src and dst as they
\* are when it returns, the constructor of dst, and the number of turns of
\* the row loop.
rescaleImage(src, srcType, srcWidth, srcHeight, factor, dst) ==
    Once({
        Once({ [src |-> rows.mem.src, dst |-> rows.mem.dst,
                type |-> IF dst = Null \/ dst.same THEN srcType ELSE dst.type,
                rows |-> rows.rows] :
               rows \in {RescaleRows(
                   [mem |-> RescaleColumns(
                                [mem |-> [src |-> src,
                                          dst |-> IF dst = Null
                                                  THEN NewArray(dstWidth * srcHeight)
                                                  ELSE IF dst.same THEN src ELSE dst.data,
                                          same |-> dst # Null /\ dst.same],
                                 x |-> 0],
                                srcWidth, srcHeight * srcWidth, dstWidth, factor),
                    dstIndex |-> 0, y |-> DblZero, rows |-> 0],
                   DblMul(DblOf(dstHeight), factor), dstWidth, factor)} }) :
        dstWidth \in {DblTrunc(DblDiv(DblOf(srcWidth), factor))},
        dstHeight \in {DblTrunc(DblDiv(DblOf(srcHeight), factor))} })

\* Bounds of the images rescaled, and the factors tried: 1.1 is the factor
\* the camera loop gives its detectors.
MaxRescaleWidth == 2
MaxRescaleHeight == 13
FactorPool == {<<1, 1>>, <<11, 10>>, <<5, 4>>, <<3, 2>>, <<2, 1>>}

\* The image whose pixel i holds i + 1, and the images with one lit pixel.
Ramp(n) == [i \in 0..(n - 1) |-> i + 1]
OneLit(n) == {[i \in 0..(n - 1) |-> IF i = k THEN 1 ELSE 0] : k \in 0..(n - 1)}

InitRescale ==
    /\ pc = "image"
    /\ imageWidth \in 1..MaxRescaleWidth
    /\ imageHeight \in 1..MaxRescaleHeight
    /\ image \in OneLit(imageWidth * imageHeight) \cup {Ramp(imageWidth * imageHeight)}
    /\ imageType \in ArrayTypes
    /\ rescaleFactor \in FactorPool
    /\ dstPassed \in {d \in DstChoices(imageWidth * imageHeight) : d = Null \/ ~d.same}
    /\ dstBuf = Null /\ again = Null
    /\ TableIdle /\ GroupIdle /\ DetectIdle /\ DetectorIdle

\* dstBuf = rescaleImage(image, imageWidth, imageHeight, rescaleFactor, dstPassed)
RescaleImage ==
    /\ pc = "image"
    /\ \E factor \in {NumberOf(rescaleFactor)} :
       \E r \in {rescaleImage(image, imageType, imageWidth, imageHeight, factor,
                              dstPassed)} :
           /\ image' = r.src
           /\ dstBuf' = [type |-> r.type, data |-> r.dst, rows |-> r.rows]
    /\ pc' = "rescaled"
    /\ UNCHANGED <<imageWidth, imageHeight, tableVars, groupVars, detectVars, imageType,
                   rescaleFactor, dstPassed, again, detectorVars>>

NextRescale == RescaleImage

SpecRescale == InitRescale /\ [][NextRescale]_vars

\* floor(a * p / q)
FloorTimes(a, p, q) == (a * p) \div q

\* C9: for every source of size w x h and every factor >= 1, rescaleImage
\* returns an image of floor(w/factor) x floor(h/factor) pixels (row-major,
\* stride floor(w/factor)) whose pixel (x', y') is the source pixel
\* (floor(x'*factor), floor(y'*factor)); with factor 1 the result equals the
\* source; a buffer it allocates has the source's array type.
C9_RescalePicksFloorPixels ==
    pc = "rescaled" =>
        LET n == rescaleFactor[1]
            d == rescaleFactor[2]
            dstWidth == FloorTimes(imageWidth, d, n)
            dstHeight == FloorTimes(imageHeight, d, n)
        IN  /\ \A x \in 0..(dstWidth - 1), y \in 0..(dstHeight - 1) :
                   /\ (y * dstWidth + x) \in DOMAIN dstBuf.data
                   /\ dstBuf.data[y * dstWidth + x]
                        = image[FloorTimes(y, n, d) * imageWidth + FloorTimes(x, n, d)]
            /\ rescaleFactor = <<1, 1>> => dstBuf.data = image
            /\ dstPassed = Null => dstBuf.type = imageType

---------------------------------------------------------------------------
(* convertRgbaToGrayscale and computeCanny                                 *)

\* One turn of the loop: i advances by 4 (two ++i in the body, then i += 2).
\* A channel read past the end is undefined and makes the sum NaN, which
\* >> 14 turns into 0.
RECURSIVE ConvertFrom(_, _, _)
ConvertFrom(src, l, srcLength) ==
    IF l.i < srcLength
    THEN LET i == l.i
             gray == IF (i + 2) \in DOMAIN src
                     THEN (src[i] * 4899 + src[i + 1] * 9617 + src[i + 2] * 1868 + 8192)
                              \div 16384
                     ELSE 0
         IN  ConvertFrom(src, [dst |-> Store(l.dst, i \div 4, gray), i |-> i + 4],
                         srcLength)
    ELSE l.dst

\* Mutant: the conversion starts at the green byte of the first pixel.
convertFromGreen(src, dst) ==
    ConvertFrom(src, [dst |-> IF dst = Null THEN NewArray(Length(src) \div 4) ELSE dst,
                      i |-> 1],
                Length(src))

\* convertRgbaToGrayscale(src, dst)
convertRgbaToGrayscale(src, dst) ==
    LET srcLength == Length(src)
    IN  ConvertFrom(src,
                    [dst |-> IF dst = Null THEN NewArray(srcLength \div 4) ELSE dst,
                     i |-> 0],
                    srcLength)

\* The coefficients of the gaussian filter.
Gauss0 == NumberOf(<<3036, 10000>>)
Gauss1 == NumberOf(<<2365, 10000>>)
Gauss2 == NumberOf(<<1117, 10000>>)

\* 0.1117 * a + 0.2365 * b + 0.3036 * c + 0.2365 * d + 0.1117 * e, stored in
\* a Uint32Array: the fraction is dropped.
Weighted(g0, g1, g2, a, b, c, d, e) ==
    DblTrunc(DblAdd(DblAdd(DblAdd(DblAdd(DblMul(g2, DblOf(a)), DblMul(g1, DblOf(b))),
                                  DblMul(g0, DblOf(c))),
                           DblMul(g1, DblOf(d))),
                    DblMul(g2, DblOf(e))))

Gaussian(a, b, c, d, e) == Weighted(Gauss0, Gauss1, Gauss2, a, b, c, d, e)

\* The locals of a pass when it enters its loops at column x, row y.
PassBegin(buffer, x, y, index) == [buffer |-> buffer, x |-> x, y |-> y, index |-> index]

\* The horizontal pass: l.buffer is buffer1.
RECURSIVE CannyHorizontal(_, _, _, _)
CannyHorizontal(src, l, srcWidth, srcHeight) ==
    IF l.x >= srcWidth - 2 THEN l.buffer
    ELSE IF l.y >= srcHeight
    THEN CannyHorizontal(src, PassBegin(l.buffer, l.x + 1, 0, l.x + 1), srcWidth, srcHeight)
    ELSE LET index == l.index
         IN  CannyHorizontal(src,
                 [l EXCEPT
                    !.buffer = Store(@, index,
                        Gaussian(Load(src, index - 2), Load(src, index - 1),
                                 Load(src, index), Load(src, index + 1),
                                 Load(src, index + 2))),
                    !.y = l.y + 1,
                    !.index = index + srcWidth],
                 srcWidth, srcHeight)

\* The vertical pass: l.buffer is buffer2, l.index the row above.
RECURSIVE CannyVertical(_, _, _, _)
CannyVertical(buffer1, l, srcWidth, srcHeight) ==
    IF l.x >= srcWidth THEN l.buffer
    ELSE IF l.y >= srcHeight - 2
    THEN CannyVertical(buffer1, PassBegin(l.buffer, l.x + 1, 2, l.x + 1 + srcWidth),
                       srcWidth, srcHeight)
    ELSE LET at == l.index + srcWidth
         IN  CannyVertical(buffer1,
                 [l EXCEPT
                    !.buffer = Store(@, at,
                        Gaussian(Load(buffer1, at - srcWidth - srcWidth),
                                 Load(buffer1, at - srcWidth), Load(buffer1, at),
                                 Load(buffer1, at + srcWidth),
                                 Load(buffer1, at + srcWidth + srcWidth))),
                    !.y = l.y + 1,
                    !.index = at],
                 srcWidth, srcHeight)

\* The sum of the two absolute sobel responses at index.
Gradient(buffer2, index, srcWidth) ==
    Abs(- Load(buffer2, index - 1 - srcWidth) + Load(buffer2, index + 1 - srcWidth)
        - 2 * Load(buffer2, index - 1) + 2 * Load(buffer2, index + 1)
        - Load(buffer2, index - 1 + srcWidth) + Load(buffer2, index + 1 + srcWidth))
    + Abs(Load(buffer2, index - 1 - srcWidth) + 2 * Load(buffer2, index - srcWidth)
          + Load(buffer2, index + 1 - srcWidth) - Load(buffer2, index - 1 + srcWidth)
          - 2 * Load(buffer2, index + srcWidth) - Load(buffer2, index + 1 + srcWidth))

\* The gradient pass: l.buffer is dst.
RECURSIVE CannyGradient(_, _, _, _)
CannyGradient(buffer2, l, srcWidth, srcHeight) ==
    IF l.x >= srcWidth - 2 THEN l.buffer
    ELSE IF l.y >= srcHeight - 2
    THEN CannyGradient(buffer2, PassBegin(l.buffer, l.x + 1, 2, l.x + 1 + srcWidth),
                       srcWidth, srcHeight)
    ELSE LET at == l.index + srcWidth
         IN  CannyGradient(buffer2,
                 [l EXCEPT !.buffer = Store(@, at, Gradient(buffer2, at, srcWidth)),
                           !.y = l.y + 1,
                           !.index = at],
                 srcWidth, srcHeight)

\* computeCanny(src, srcWidth, srcHeight, dst) on Uint32Arrays, dst not src:
\* buffer1 is dst itself.
computeCanny(src, srcWidth, srcHeight, dst) ==
    LET srcLength == srcWidth * srcHeight
    IN  Once({
          Once({ CannyGradient(buffer2, PassBegin(buffer1, 2, 2, 2 + srcWidth), srcWidth,
                               srcHeight) :
                 buffer2 \in {CannyVertical(buffer1,
                                            PassBegin(NewArray(srcLength), 0, 2, srcWidth),
                                            srcWidth, srcHeight)} }) :
          buffer1 \in {CannyHorizontal(
                           src,
                           PassBegin(IF dst = Null THEN NewArray(srcLength) ELSE dst,
                                     2, 0, 2),
                           srcWidth, srcHeight)} })

---------------------------------------------------------------------------
(* The detector object.  Rectangle coordinates scaled by a level's scale   *)
(* are Numbers.  For groupRectangles they are kept as integer counts of    *)
(* units of 2^-UnitBits, which is exact for the scale factors of the       *)
(* detectors that are called with grouping (halves and quarters);          *)
(* groupRectangles is indifferent to the unit.                             *)

UnitBits == 4
MaxCalls == 2

\* The Number a, a multiple of 2^-UnitBits, in units.
Units(a) == DblTrunc(DblMul(a, DblOf(2 ^ UnitBits)))

\* ~~(Math.log(Math.min(width / windowWidth, height / windowHeight))
\*      / Math.log(scaleFactor))
\* for scaleFactor = p[1] / p[2] > 1: the number of powers of scaleFactor,
\* from the first on, that do not exceed the smaller ratio.
RECURSIVE NumScalesFrom(_, _, _, _, _, _, _)
NumScalesFrom(width, height, windowWidth, windowHeight, p, up, down) ==
    IF up * p[1] * windowWidth <= width * down * p[2]
       /\ up * p[1] * windowHeight <= height * down * p[2]
    THEN 1 + NumScalesFrom(width, height, windowWidth, windowHeight, p,
                           up * p[1], down * p[2])
    ELSE 0

\* The same quotient when the smaller ratio is below 1: it is negative,
\* and ~~ rounds it towards zero, to minus the number of powers of
\* scaleFactor, from the first on, that do not exceed the inverse ratio.
RECURSIVE NumScalesUnder(_, _, _, _, _, _, _)
NumScalesUnder(width, height, windowWidth, windowHeight, p, up, down) ==
    IF up * p[1] * width <= windowWidth * down * p[2]
       \/ up * p[1] * height <= windowHeight * down * p[2]
    THEN NumScalesUnder(width, height, windowWidth, windowHeight, p,
                        up * p[1], down * p[2]) - 1
    ELSE 0

NumScales(width, height, classifier, p) ==
    IF classifier[0] > width \/ classifier[1] > height
    THEN NumScalesUnder(width, height, classifier[0], classifier[1], p, 1, 1)
    ELSE NumScalesFrom(width, height, classifier[0], classifier[1], p, 1, 1)

\* this.compiledClassifiers[i] = compileClassifier(classifier, ~~(width / scale))
RECURSIVE CompileLevels(_, _, _, _, _, _)
CompileLevels(classifier, width, scaleFactor, numScales, i, scale) ==
    IF i < numScales
    THEN Once({ <<compileClassifier(classifier, scaledWidth)>>
                \o CompileLevels(classifier, width, scaleFactor, numScales,
                                 i + 1, next) :
                scaledWidth \in {DblTrunc(DblDiv(DblOf(width), scale))},
                next \in {DblMul(scale, scaleFactor)} })
    ELSE <<>>

\* new detector(width, height, scaleFactor, classifier); tilted is
\* classifier.tilted, p the decimal of scaleFactor.
NewDetector(width, height, p, classifier, tilted) ==
    LET numScales == NumScales(width, height, classifier, p)
    IN  [width |-> width, height |-> height,
         tilted |-> tilted,
         scaleFactor |-> NumberOf(p),
         numScales |-> numScales,
         scaledGray |-> NewArray(width * height),
         compiledClassifiers |->
             CompileLevels(classifier, width, NumberOf(p), numScales, 0, DblOf(1)),
         gray |-> Null, canny |-> Null, cannySat |-> Null,
         sat |-> Null, ssat |-> Null, rsat |-> Null]

\* this.scaledGray.set(this.gray)
Set(target, source) ==
    [i \in DOMAIN target |-> IF i \in DOMAIN source THEN source[i] ELSE target[i]]

\* newRect[k] *= scale, for the four fields of every rectangle
ScaleRects(newRects, scale) ==
    [j \in 1..Len(newRects) |->
        [k \in 1..4 |-> DblMul(DblOf(newRects[j][k]), scale)]]

\* The rectangles as groupRectangles takes them, in units.
InUnits(list) == [j \in 1..Len(list) |-> [k \in 1..4 |-> Units(list[j][k])]]

\* The canny image of a level and its table, or those the object holds
\* when the canny flag is not set.
CannyLevel(d, scaledGray, scaledWidth, scaledHeight, canny) ==
    IF canny
    THEN Once({ [canny |-> cannyBuf,
                 cannySat |-> computeSat(cannyBuf, scaledWidth, scaledHeight, d.cannySat)] :
                cannyBuf \in {computeCanny(scaledGray, scaledWidth, scaledHeight,
                                           d.canny)} })
    ELSE [canny |-> d.canny, cannySat |-> d.cannySat]

\* One turn of the loop over the levels in detector.prototype.detect.
DetectorLevel(st, stepArg, canny) ==
    LET d == st.det
    IN  Once({ Once({
          [det |-> [d EXCEPT !.scaledGray = scaledGray, !.canny = edges.canny,
                             !.cannySat = edges.cannySat, !.sat = sat, !.ssat = ssat,
                             !.rsat = rsat],
           rects |-> st.rects \o ScaleRects(
               detect(sat, rsat, ssat, edges.cannySat, scaledWidth, scaledHeight,
                      stepArg, d.compiledClassifiers[st.i + 1]),
               st.scale),
           scale |-> DblMul(st.scale, d.scaleFactor),
           i |-> st.i + 1] :
          edges \in {CannyLevel(d, scaledGray, scaledWidth, scaledHeight, canny)},
          sat \in {computeSat(scaledGray, scaledWidth, scaledHeight, d.sat)},
          ssat \in {computeSquaredSat(scaledGray, scaledWidth, scaledHeight, d.ssat)},
          rsat \in {IF d.tilted
                    THEN computeRsat(scaledGray, scaledWidth, scaledHeight, d.rsat)
                    ELSE d.rsat} }) :
          scaledWidth \in {DblTrunc(DblDiv(DblOf(d.width), st.scale))},
          scaledHeight \in {DblTrunc(DblDiv(DblOf(d.height), st.scale))},
          scaledGray \in {
              IF st.scale = DblOf(1) THEN Set(d.scaledGray, d.gray)
              ELSE rescaleImage(d.gray, "Uint32Array", d.width, d.height, st.scale,
                                [same |-> FALSE, type |-> "Uint32Array",
                                 data |-> d.scaledGray]).dst} })

RECURSIVE DetectorLevels(_, _, _)
DetectorLevels(st, stepArg, canny) ==
    IF st.i < st.det.numScales
    THEN DetectorLevels(DetectorLevel(st, stepArg, canny), stepArg, canny)
    ELSE st

\* list.sort(function (r1, r2) { return r2[4] - r1[4]; }) on a list of
\* groups: entries that are undefined go last, the others by decreasing 5th
\* field, equal ones in their order in the list.
RECURSIVE Insert(_, _)
Insert(sorted, r) ==
    IF sorted = <<>> THEN <<r>>
    ELSE LET last == sorted[Len(sorted)]
         IN  IF ~r.defined THEN Append(sorted, r)
             ELSE IF ~last.defined \/ last.n < r.n
             THEN Append(Insert(SubSeq(sorted, 1, Len(sorted) - 1), r), last)
             ELSE Append(sorted, r)

RECURSIVE SortFrom(_, _, _)
SortFrom(list, i, sorted) ==
    IF i > Len(list) THEN sorted ELSE SortFrom(list, i + 1, Insert(sorted, list[i]))

\* Mutant: the list is returned as groupRectangles gives it.
Unsorted(list, isGrouped) == list

\* On rectangles that were not grouped there is no 5th field: every
\* comparison gives NaN and the list keeps its order.
Sort(list, isGrouped) == IF isGrouped THEN SortFrom(list, 1, <<>>) ELSE list

\* An argument that may be left out: the empty set when it is.
Default(arg, value) == IF arg = {} THEN value ELSE CHOOSE a \in arg : TRUE

\* detector.prototype.detect(image, group, stepSize, roi, canny): imageData
\* is what getImageData returns for the frame drawn (the part roi selects
\* when roi is passed).  The object when the call ends, and what it
\* returns or that it throws.
detectorDetect(d, imageData, groupArg, stepArg, canny) ==
    LET stepSize1 == Default(stepArg, 1)
        group == Default(groupArg, 1)
    IN  Once({ Once({
          [det |-> st.det,
           threw |-> grouped1.threw,
           isGrouped |-> group # 0,
           value |-> IF grouped1.threw THEN <<>> ELSE Sort(grouped1.value, group # 0)] :
          grouped1 \in {IF group # 0 THEN groupRectangles(InUnits(st.rects), group, Null)
                        ELSE [threw |-> FALSE, value |-> st.rects]} }) :
          st \in {DetectorLevels(
                      [det |-> [d EXCEPT !.gray = convertRgbaToGrayscale(imageData, d.gray)],
                       rects |-> <<>>, scale |-> DblOf(1), i |-> 0],
                      stepSize1, canny)} })

\* Frames: every pixel of a frame is grey (r = g = b) and opaque.
Opaque == 255
Rgba(grays) ==
    [i \in 0..(4 * Length(grays) - 1) |-> IF i % 4 = 3 THEN Opaque ELSE grays[i \div 4]]

\* A dark frame, frames with a bright vertical bar in column x, and a
\* frame with a bright pixel in the top left corner and two in column 2
\* of rows 2 and 3.
Bright == 200
Bar(width, height, x) ==
    [i \in 0..(width * height - 1) |-> IF i % width = x THEN Bright ELSE 0]
Spots(width, height) ==
    [i \in 0..(width * height - 1) |->
        IF i \in {0, 2 * width + 2, 3 * width + 2} THEN Bright ELSE 0]
Frames(width, height) ==
    {Rgba(NewArray(width * height)), Rgba(Bar(width, height, 0)),
     Rgba(Bar(width, height, 2)), Rgba(Spots(width, height))}

\* The detectors built: a working frame of half the window and one of the
\* size of the window, one level, two levels, and three levels with a
\* tilted classifier.
DetectorPool ==
    {[width |-> 1, height |-> 1, scaleFactor |-> <<2, 1>>, classifier |-> CascadeEdge,
      tilted |-> FALSE],
     [width |-> 2, height |-> 2, scaleFactor |-> <<2, 1>>, classifier |-> CascadeEdge,
      tilted |-> FALSE],
     [width |-> 4, height |-> 4, scaleFactor |-> <<2, 1>>, classifier |-> CascadeEdge,
      tilted |-> FALSE],
     [width |-> 5, height |-> 5, scaleFactor |-> <<3, 2>>, classifier |-> CascadeTwoStage,
      tilted |-> FALSE],
     [width |-> 4, height |-> 4, scaleFactor |-> <<5, 4>>, classifier |-> CascadeTilted,
      tilted |-> TRUE]}

NoCall == [number |-> 0, group |-> {}, stepSize |-> {}, canny |-> FALSE]

\* The state after  new detector(width, height, scaleFactor, classifier).
InitDetector ==
    /\ pc = "detector"
    /\ \E c \in DetectorPool :
          /\ imageWidth = c.width
          /\ imageHeight = c.height
          /\ rescaleFactor = c.scaleFactor
          /\ cascade = c.classifier
          /\ det = NewDetector(c.width, c.height, c.scaleFactor, c.classifier, c.tilted)
    /\ image = <<>>
    /\ call = NoCall
    /\ result = Null /\ camera = Null
    /\ compiled = <<>> /\ stepSize = 0 /\ cannySatBuf = Null /\ loc = Null
    /\ imageType = "" /\ dstPassed = Null /\ dstBuf = Null /\ again = Null
    /\ TableIdle /\ GroupIdle

\* result = det.detect(frame, group, stepSize, roi, canny)
DetectorDetect ==
    /\ pc = "detector"
    /\ call.number < MaxCalls
    /\ \E imageData \in Frames(imageWidth, imageHeight),
          groupArg \in {{}, {0}, {2}}, stepArg \in {{}, {2}}, canny \in BOOLEAN :
          \E r \in {detectorDetect(det, imageData, groupArg, stepArg, canny)} :
              /\ image' = imageData
              /\ call' = [number |-> call.number + 1, group |-> groupArg,
                          stepSize |-> stepArg, canny |-> canny]
              /\ det' = r.det
              /\ result' = [threw |-> r.threw, isGrouped |-> r.isGrouped, value |-> r.value]
    /\ UNCHANGED <<pc, imageWidth, imageHeight, tableVars, groupVars, detectVars,
                   imageType, rescaleFactor, dstPassed, dstBuf, again, camera>>

NextDetector == DetectorDetect

SpecDetector == InitDetector /\ [][NextDetector]_vars

\* What the last call would have returned on a detector just built, on which
\* no call was ever made with the canny flag.
OnFreshDetector ==
    LET r == detectorDetect(
                 NewDetector(imageWidth, imageHeight, rescaleFactor, cascade, det.tilted),
                 image, call.group, call.stepSize, FALSE)
    IN  [threw |-> r.threw, isGrouped |-> r.isGrouped, value |-> r.value]

\* C6: a detect call made without the canny flag returns what the same call
\* returns on a detector that never had the flag, whatever calls (with or
\* without the flag) were made on the detector before.
C6_NoFlagIgnoresEarlierFlag ==
    (call.number > 0 /\ ~call.canny) => result = OnFreshDetector

\* A call without the flag that follows a call with it.
C6_AfterCannyCall ==
    ~(call.number = 2 /\ ~call.canny /\ det.cannySat # Null)

---------------------------------------------------------------------------
(* equalizeHistogram.  The source is a plain Array or a Uint32Array; a     *)
(* plain Array keeps the Number stored, a Uint32Array its integer part.    *)

MaxEqualizeLength == 4
MaxEqualizeStep == 3
GrayLevels == 256
GrayPool == {0, 128, 255}

\* if (!step) step = 5: an omitted step is the empty set.
DefaultStep == 5

\* The indices  for (var i = 0; i < srcLength; i += step)  visits.
Sampled(srcLength, step) == {i \in 0..(srcLength - 1) : i % step = 0}

\* hist[v] after the first loop: ++hist[src[i]] for every index visited.
Histogram(src, step, v) == Cardinality({i \in Sampled(Length(src), step) : src[i] = v})

\* prev after the turn for bin v of the second loop: the sum of hist[0..v].
Cumulative(src, step, v) == Cardinality({i \in Sampled(Length(src), step) : src[i] <= v})

\* norm = 255 * step / srcLength
Norm(srcLength, step) == DblDiv(DblOf((GrayLevels - 1) * step), DblOf(srcLength))

\* hist[v] after the second loop: hist[i] = h * norm
Integral(src, step, v) == DblMul(DblOf(Cumulative(src, step, v)), Norm(Length(src), step))

\* The element a store of the Number a leaves in an array of the type.
Stored(type, a) == IF type = "Array" THEN a ELSE DblTrunc(a)

\* equalizeHistogram(src, step, dst): the array returned, which is src
\* itself when no dst is passed.  Every src[i] is read before dst[i] is
\* written, so that the result is the same when both are one array.
equalizeHistogram(src, srcType, stepArg, dst) ==
    LET step == IF stepArg = {} \/ stepArg = {0} THEN DefaultStep
                ELSE CHOOSE s \in stepArg : TRUE
        type == IF dst = Null \/ dst.same THEN srcType ELSE dst.type
        data == IF dst = Null \/ dst.same THEN src ELSE dst.data
    IN  [type |-> type,
         same |-> dst = Null \/ dst.same,
         data |-> [i \in DOMAIN data |->
                      IF i \in DOMAIN src
                      THEN Stored(type, Integral(src, step, src[i]))
                      ELSE data[i]]]

EqualizeTypes == {"Array", "Uint32Array"}

InitEqualize ==
    /\ pc = "equalize"
    /\ imageWidth \in 1..MaxEqualizeLength
    /\ imageHeight = 1
    /\ image \in [0..(imageWidth - 1) -> GrayPool]
    /\ imageType \in EqualizeTypes
    /\ call \in {[step |-> s] : s \in {{}} \cup {{n} : n \in 1..MaxEqualizeStep}}
    /\ dstPassed \in {Null} \cup {[same |-> FALSE, type |-> t, data |-> StaleArray(imageWidth)] :
                                   t \in EqualizeTypes}
    /\ dstBuf = Null /\ again = Null /\ rescaleFactor = <<1, 1>>
    /\ det = Null /\ result = Null /\ camera = Null
    /\ TableIdle /\ GroupIdle /\ DetectIdle

\* dstBuf = equalizeHistogram(image, step, dstPassed)
EqualizeHistogram ==
    /\ pc = "equalize"
    /\ \E r \in {equalizeHistogram(image, imageType, call.step, dstPassed)} :
           /\ dstBuf' = [type |-> r.type, data |-> r.data]
           /\ image' = IF r.same THEN r.data ELSE image
    /\ pc' = "equalized"
    /\ UNCHANGED <<imageWidth, imageHeight, tableVars, groupVars, detectVars, imageType,
                   rescaleFactor, dstPassed, again, detectorVars>>

NextEqualize == EqualizeHistogram

SpecEqualize == InitEqualize /\ [][NextEqualize]_vars

\* The Number a is at most n.
AtMost(type, a, n) == IF type = "Array" THEN ~DblLess(DblOf(n), a) ELSE a <= n

\* C11: every value equalizeHistogram writes lies in [0, 255], for every
\* source with pixels in [0, 255], every length and every step >= 1.
C11_EqualizedInByteRange ==
    (pc = "equalized" /\ call.step # {})
        => \A i \in DOMAIN dstBuf.data : AtMost(dstBuf.type, dstBuf.data[i], GrayLevels - 1)

---------------------------------------------------------------------------
(* convertRgbaToGrayscale on its own: RGBA buffers of MaxGrayPixels pixels *)
(* at most, with bytes taken from BytePool.                                *)

MaxGrayPixels == 2
BytePool == {0, 100, 255}

\* The dst passed: none, or an array of one element more than the pixels.
GrayDstChoices(n) == {Null, StaleArray(n + 1)}

InitGray ==
    /\ pc = "rgba"
    /\ imageWidth \in 1..MaxGrayPixels
    /\ imageHeight = 1
    /\ image \in [0..(4 * imageWidth - 1) -> BytePool]
    /\ dstPassed \in GrayDstChoices(imageWidth)
    /\ imageType = "Uint8ClampedArray"
    /\ dstBuf = Null /\ again = Null /\ rescaleFactor = <<1, 1>>
    /\ TableIdle /\ GroupIdle /\ DetectIdle /\ DetectorIdle

\* dstBuf = convertRgbaToGrayscale(image, dstPassed)
ConvertRgbaToGrayscale ==
    /\ pc = "rgba"
    /\ dstBuf' = convertRgbaToGrayscale(image, dstPassed)
    /\ pc' = "gray"
    /\ UNCHANGED <<imageVars, tableVars, groupVars, detectVars, imageType,
                   rescaleFactor, dstPassed, again, detectorVars>>

NextGray == ConvertRgbaToGrayscale

SpecGray == InitGray /\ [][NextGray]_vars

\* (R * 4899 + G * 9617 + B * 1868 + 8192) >> 14
Luma(r, g, b) == (r * 4899 + g * 9617 + b * 1868 + 8192) \div 16384

\* C12: for an RGBA buffer of 4n bytes convertRgbaToGrayscale writes exactly
\* n outputs, output p being the luma of bytes 4p, 4p+1, 4p+2 (the alpha
\* byte has no influence, no pixel is skipped or written twice), and every
\* output lies in [0, 255].
C12_GrayIsLumaOfRgb ==
    pc = "gray" =>
        /\ DOMAIN dstBuf = IF dstPassed = Null THEN 0..(imageWidth - 1)
                           ELSE DOMAIN dstPassed
        /\ \A p \in 0..(imageWidth - 1) :
               /\ dstBuf[p] = Luma(image[4 * p], image[4 * p + 1], image[4 * p + 2])
               /\ dstBuf[p] \in 0..255
        /\ \A p \in DOMAIN dstBuf : p >= imageWidth => dstBuf[p] = dstPassed[p]
        /\ \A alpha \in [0..(imageWidth - 1) -> BytePool] :
               convertRgbaToGrayscale(
                   [i \in DOMAIN image |-> IF i % 4 = 3 THEN alpha[i \div 4] ELSE image[i]],
                   dstPassed) = dstBuf

\* Two pixels with different colours and different alpha bytes, converted
\* into a buffer that was passed.
C12_Witness ==
    /\ pc = "gray" /\ imageWidth = 2 /\ dstPassed # Null
    /\ image[3] # image[7]
    /\ dstBuf[0] = 255 /\ dstBuf[1] \notin {0, 255}

---------------------------------------------------------------------------
(* mirrorClassifier.  A cascade is a Float32Array, data, that may carry a  *)
(* property tilted: the set of its values, empty when it is not set.  The  *)
(* dst argument is "none" when it is left out and "same" when it is the    *)
(* source itself.                                                          *)

\* Mutant: the width is read after the height was stored over it.
MirrorTiltedLate(mem, i, windowWidth) ==
    Once({ StoreDst(m2, i + 4, m2.src[i + 3]) :
           m2 \in {StoreDst(StoreDst(mem, i + 1, windowWidth - mem.src[i + 1]),
                            i + 3, mem.src[i + 4])} })

\* One turn of the loop over the features of a tilted tree.
MirrorTilted(mem, i, windowWidth) ==
    Once({ StoreDst(StoreDst(m1, i + 3, m1.src[i + 4]), i + 4, width) :
           m1 \in {StoreDst(mem, i + 1, windowWidth - mem.src[i + 1])},
           width \in {mem.src[i + 3]} })

\* Mutant: the x of an untilted feature is mirrored without its width.
MirrorUntiltedCorner(mem, i, windowWidth) ==
    StoreDst(mem, i + 1, windowWidth - mem.src[i + 1])

\* One turn of the loop over the features of an untilted tree.
MirrorUntilted(mem, i, windowWidth) ==
    StoreDst(mem, i + 1, windowWidth - mem.src[i + 1] - mem.src[i + 3])

\* for (var kEnd = i + src[++i] * 5; i < kEnd;) { ...; i += 5; }
RECURSIVE MirrorFeatures(_, _, _, _)
MirrorFeatures(l, kEnd, tilted, windowWidth) ==
    IF l.i < kEnd
    THEN MirrorFeatures([mem |-> IF tilted THEN MirrorTilted(l.mem, l.i, windowWidth)
                                 ELSE MirrorUntilted(l.mem, l.i, windowWidth),
                         i |-> l.i + 5],
                        kEnd, tilted, windowWidth)
    ELSE l

\* The features of the tree whose tilted flag is at i - 1 and whose feature
\* count is at i; then i += 3.
MirrorTree(mem, i, windowWidth) ==
    Once({ [mem |-> f.mem, i |-> f.i + 3] :
           f \in {MirrorFeatures([mem |-> mem, i |-> i], i + mem.src[i] * 5,
                                 mem.src[i - 1] # 0, windowWidth)} })

\* for (var j = 0, jEnd = src[++i]; j < jEnd; ++j) { ... }
RECURSIVE MirrorTrees(_, _, _, _)
MirrorTrees(l, j, jEnd, windowWidth) ==
    IF j < jEnd
    THEN MirrorTrees(MirrorTree(l.mem, l.i + 2, windowWidth), j + 1, jEnd, windowWidth)
    ELSE l

\* for (var i = 1, iEnd = src.length - 1; i < iEnd;) { ++i; ... }
RECURSIVE MirrorStages(_, _, _)
MirrorStages(l, iEnd, windowWidth) ==
    IF l.i < iEnd
    THEN MirrorStages(MirrorTrees([mem |-> l.mem, i |-> l.i + 2], 0, l.mem.src[l.i + 2],
                                  windowWidth),
                      iEnd, windowWidth)
    ELSE l

\* mirrorClassifier(src, dst): the cascade returned and the source as it is
\* when the call returns.  new src.constructor(src) copies the elements of
\* src, and none of its other properties.
mirrorClassifier(src, dst) ==
    Once({ [data |-> l.mem.dst,
            tilted |-> IF dst = "same" THEN src.tilted ELSE {},
            src |-> [data |-> l.mem.src, tilted |-> src.tilted]] :
           l \in {MirrorStages([mem |-> [src |-> src.data, dst |-> src.data,
                                         same |-> dst = "same"],
                                i |-> 1],
                               Length(src.data) - 1, src.data[0])} })

\* The cascades mirrored: a 3 x 3 window and one stage of one or two trees
\* of one feature, or of one tree of two features; and the cascades of the
\* detect scenarios.
MirrorWindow == 3
FeaturePool ==
    {<<x, y, w, h, 1>> : x \in 0..1, y \in 0..1, w \in 1..2, h \in 1..2}
TreePool ==
    {<<t, 1>> \o f \o <<2, -1, 1>> : t \in {0, 1}, f \in FeaturePool}
    \cup {<<t, 2>> \o f \o <<2, 1, 1, 1, -1>> \o <<2, -1, 1>> :
             t \in {0, 1}, f \in FeaturePool}
MirrorPool ==
    {Arr(<<MirrorWindow, MirrorWindow, 1, 1>> \o t) : t \in TreePool}
    \cup {Arr(<<MirrorWindow, MirrorWindow, 1, 2>> \o t \o u) :
             t \in TreePool, u \in {v \in TreePool : v[2] = 1 /\ v[4] = 0}}
    \cup CascadePool

InitMirrorClassifier ==
    /\ pc = "cascade"
    /\ cascade \in MirrorPool
    /\ call \in [tilted : {{}, {TRUE}}, dst : {"none", "same"}]
    /\ det = [data |-> cascade, tilted |-> call.tilted]
    /\ result = Null /\ camera = Null
    /\ compiled = <<>> /\ stepSize = 0 /\ cannySatBuf = Null /\ loc = Null
    /\ ImageIdle /\ TableIdle /\ GroupIdle /\ BufferIdle

\* result = mirrorClassifier(det, dst); det is the source object.
MirrorClassifier ==
    /\ pc = "cascade"
    /\ \E r \in {mirrorClassifier(det, call.dst)} :
           /\ result' = [data |-> r.data, tilted |-> r.tilted]
           /\ det' = r.src
    /\ pc' = "mirrored"
    /\ UNCHANGED <<imageVars, tableVars, groupVars, detectVars, bufferVars, call, camera>>

NextMirrorClassifier == MirrorClassifier

SpecMirrorClassifier == InitMirrorClassifier /\ [][NextMirrorClassifier]_vars

\* The trees of a generic cascade, read from its layout: the index of the
\* tilted flag of every tree of the stage at p and of the stages after it.
RECURSIVE TreesFrom(_, _, _, _)
TreesFrom(data, p, q, left) ==
    IF left > 0
    THEN {q} \cup TreesFrom(data, p, q + 5 + 5 * data[q + 1], left - 1)
    ELSE IF q < Length(data) - 1
    THEN TreesFrom(data, q, q + 2, data[q + 1])
    ELSE {}

TreesOf(data) == TreesFrom(data, 2, 4, data[3])

\* The index of the x of every feature, with the tilted flag of its tree.
FeaturesOf(data) ==
    UNION {{[at |-> q + 2 + 5 * k, tilted |-> data[q] # 0] : k \in 0..(data[q + 1] - 1)} :
              q \in TreesOf(data)}

\* The feature at f of the cascade: <<x, y, width, height, weight>>.
FeatureAt(data, f) == [k \in 1..5 |-> data[f.at + k - 1]]

\* What mirroring makes of a feature in a window of the given width.
Mirrored(feature, tilted, windowWidth) ==
    IF tilted
    THEN <<windowWidth - feature[1], feature[2], feature[4], feature[3], feature[5]>>
    ELSE <<windowWidth - feature[1] - feature[3], feature[2], feature[3], feature[4],
           feature[5]>>

C14_MetadataPreserved ==
    pc = "mirrored" =>
        /\ result.data[0] = cascade[0]
        /\ result.data[1] = cascade[1]
        /\ result.tilted = call.tilted

---------------------------------------------------------------------------
(* compileClassifier on its own, for target widths up to the ones whose    *)
(* row stride reaches the 16 bits of a packed offset.                      *)

\* Target widths: a small one, and the ones whose stride (width + 1) makes
\* 2 * (stride + 1), 2 * stride and 2 * (stride - 1) reach 65536.
WidthPool == {3, 32766, 32767, 32768}

InitCompile ==
    /\ pc = "classifier"
    /\ cascade \in MirrorPool
    /\ imageWidth \in WidthPool
    /\ image = <<>> /\ imageHeight = 0
    /\ compiled = <<>> /\ stepSize = 0 /\ cannySatBuf = Null /\ loc = Null
    /\ TableIdle /\ GroupIdle /\ BufferIdle /\ DetectorIdle

\* compiled = compileClassifier(cascade, imageWidth); the function has no
\* throw statement, it returns for every input.
CompileClassifier ==
    /\ pc = "classifier"
    /\ compiled' = compileClassifier(cascade, imageWidth)
    /\ pc' = "compiled"
    /\ UNCHANGED <<imageVars, tableVars, groupVars, cascade, stepSize, cannySatBuf, loc,
                   bufferVars, detectorVars>>

NextCompile == CompileClassifier

SpecCompile == InitCompile /\ [][NextCompile]_vars

\* The two relative offsets of a feature for a row stride: the one kept in
\* the low half-word and the one kept in the high half-word.
Offsets(feature, tilted, stride) ==
    IF tilted
    THEN <<feature[3] * (stride + 1), feature[4] * (stride - 1)>>
    ELSE <<feature[3], feature[4] * stride>>

\* The half-words of the packed words of a compiled classifier.
HalfWords(classifier) ==
    {<<LowHalf(classifier[i]), HighHalf(classifier[i])>> :
        i \in {j \in DOMAIN classifier : classifier[j].k = "p"}}

\* C15: compileClassifier returns a compiled classifier only when every
\* relative offset fits its 16-bit half-word (otherwise it signals an
\* error): the half-words of a returned classifier are the offsets of the
\* features of its source, none wrapped, truncated or carried over.
C15_OffsetsFitOrError ==
    pc = "compiled" =>
        HalfWords(compiled) =
            {Offsets(FeatureAt(cascade, f), f.tilted, imageWidth + 1) :
                f \in FeaturesOf(cascade)}

---------------------------------------------------------------------------
(* detector.prototype.detect with grouping disabled, one call on a         *)
(* detector just built; among the detectors one whose scale factor, 1.3,   *)
(* is not a binary fraction.                                               *)

\* A classifier over a 1 x 1 window: the pixel is above 128.
CascadePixel ==
    Arr(<<1, 1,
          1, 1,
             0, 1, 0, 0, 1, 1, 1,  128, 0, 1>>)

LevelsPool ==
    DetectorPool \cup
    {[width |-> 13, height |-> 2, scaleFactor |-> <<13, 10>>, classifier |-> CascadePixel,
      tilted |-> FALSE]}

\* A dark frame, a bright one, and a bright bar in every column.
LevelFrames(width, height) ==
    {Rgba(NewArray(width * height)), Rgba([i \in 0..(width * height - 1) |-> Bright])}
    \cup {Rgba(Bar(width, height, x)) : x \in 0..(width - 1)}

InitLevels ==
    /\ pc = "levels"
    /\ \E c \in LevelsPool :
          /\ imageWidth = c.width
          /\ imageHeight = c.height
          /\ rescaleFactor = c.scaleFactor
          /\ cascade = c.classifier
          /\ det = NewDetector(c.width, c.height, c.scaleFactor, c.classifier, c.tilted)
    /\ image = <<>>
    /\ call = NoCall
    /\ result = Null /\ camera = Null
    /\ compiled = <<>> /\ stepSize = 0 /\ cannySatBuf = Null /\ loc = Null
    /\ imageType = "" /\ dstPassed = Null /\ dstBuf = Null /\ again = Null
    /\ TableIdle /\ GroupIdle

\* result = det.detect(frame, 0, stepSize, roi, canny)
DetectUngrouped ==
    /\ pc = "levels"
    /\ call.number = 0
    /\ \E imageData \in LevelFrames(imageWidth, imageHeight),
          stepArg \in {{}, {2}, {3}}, canny \in BOOLEAN :
          \E r \in {detectorDetect(det, imageData, {0}, stepArg, canny)} :
              /\ image' = imageData
              /\ call' = [number |-> 1, group |-> {0}, stepSize |-> stepArg,
                          canny |-> canny]
              /\ det' = r.det
              /\ result' = [threw |-> r.threw, isGrouped |-> r.isGrouped, value |-> r.value]
    /\ UNCHANGED <<pc, imageWidth, imageHeight, tableVars, groupVars, detectVars,
                   imageType, rescaleFactor, dstPassed, dstBuf, again, camera>>

NextLevels == DetectUngrouped

SpecLevels == InitLevels /\ [][NextLevels]_vars

\* The scale of level i: scaleFactor multiplied i times into 1.
RECURSIVE LevelScale(_, _)
LevelScale(scaleFactor, i) ==
    IF i = 0 THEN DblOf(1) ELSE DblMul(LevelScale(scaleFactor, i - 1), scaleFactor)

\* The window positions of a frame of the working size, scaled by s.
ScaledWindows(s) ==
    {[k \in 1..4 |-> DblMul(DblOf(<<x, y, cascade[0], cascade[1]>>[k]), s)] :
        x \in 0..imageWidth, y \in 0..imageHeight}

\* C16: with grouping disabled every rectangle detector.detect returns is
\* a window position of a level scaled by the scale of that level, the
\* list is in level order, and every rectangle lies inside the working
\* frame: 0 <= left, 0 <= top, left + width <= working width and
\* top + height <= working height.
C16_UngroupedRectsInFrame ==
    (pc = "levels" /\ call.number = 1) =>
        LET windows == [i \in 0..(det.numScales - 1) |->
                           ScaledWindows(LevelScale(det.scaleFactor, i))]
            list == result.value
        IN  /\ ~result.threw
            /\ \A k \in 1..Len(list) : \E i \in DOMAIN windows : list[k] \in windows[i]
            /\ \A k \in 1..(Len(list) - 1) :
                   \E i, j \in DOMAIN windows :
                       i <= j /\ list[k] \in windows[i] /\ list[k + 1] \in windows[j]
            /\ \A k \in 1..Len(list) :
                   /\ ~DblLess(list[k][1], DblZero)
                   /\ ~DblLess(list[k][2], DblZero)
                   /\ ~DblLess(DblOf(imageWidth), DblAdd(list[k][1], list[k][3]))
                   /\ ~DblLess(DblOf(imageHeight), DblAdd(list[k][2], list[k][4]))

---------------------------------------------------------------------------
\* C17: with grouping enabled the list detector.detect returns is ordered
\* by neighbour count, non-increasing: consecutive entries have a 5th
\* field each, and that of the first is at least that of the second.
C17_GroupedSortedByNeighbors ==
    (pc = "detector" /\ call.number > 0 /\ result.isGrouped /\ ~result.threw) =>
        \A k \in 1..(Len(result.value) - 1) :
            /\ result.value[k].defined /\ result.value[k + 1].defined
            /\ result.value[k].n >= result.value[k + 1].n

\* A call with grouping whose groups come out of groupRectangles with the
\* smaller one first, and are returned with the larger one first.
C17_Witness ==
    /\ pc = "detector" /\ call.number > 0 /\ result.isGrouped /\ ~result.threw
    /\ Len(result.value) = 2
    /\ result.value[1].n > result.value[2].n
    /\ result.value[1].x > result.value[2].x

---------------------------------------------------------------------------
(* The three stages that pass rectangle lists on: groupRectangles, detect  *)
(* and detector.prototype.detect, each in its own scenarios.               *)

InitStages == InitGroup \/ InitDetect \/ InitDetector

NextStages == NextGroup \/ NextDetect \/ NextDetector

SpecStages == InitStages /\ [][NextStages]_vars

\* No window that detect evaluated was accepted.
NoneFound == \A k \in 1..Len(loc.trace) : ~loc.trace[k].found

\* What the call returns with grouping disabled on a detector just built.
UngroupedOnFresh ==
    detectorDetect(NewDetector(imageWidth, imageHeight, rescaleFactor, cascade, det.tilted),
                   image, {0}, call.stepSize, call.canny).value

\* groupRectangles([], m) returns [].
EmptyGrouped ==
    (pc = "grouped" /\ rects = <<>>) => (~grouped.threw /\ grouped.value = <<>>)

\* detector.detect returns [], grouped or not, when the detector has no
\* level or when no level yields a detection.
EmptyFromDetector ==
    (pc = "detector" /\ call.number > 0
        /\ (det.numScales = 0 \/ (call.number = 1 /\ UngroupedOnFresh = <<>>))) =>
        (~result.threw /\ result.value = <<>>)

\* C18: empty rectangle lists are accepted and propagated at every stage:
\* groupRectangles([], m) returns [] for every m, detect returns [] when no
\* window survives or when the image is not larger than the window, and
\* detector.detect returns [] when no level yields a detection or when the
\* detector has no level.
C18_EmptyListsPropagate ==
    /\ EmptyGrouped
    /\ (pc = "returned"
           /\ (NoneFound \/ imageWidth <= cascade[0] \/ imageHeight <= cascade[1])) =>
           loc.rects = <<>>
    /\ EmptyFromDetector

\* C18, amended: as above, with detect returning [] when no window survives
\* or when the image is smaller than the window in width or in height; an
\* image of the size of the window has one window, which is evaluated.
C18_EmptyWhenImageSmaller ==
    /\ EmptyGrouped
    /\ (pc = "returned"
           /\ (NoneFound \/ imageWidth < cascade[0] \/ imageHeight < cascade[1])) =>
           loc.rects = <<>>
    /\ EmptyFromDetector

\* detect has returned from an image narrower than the window.
C18_Witness ==
    /\ pc = "returned"
    /\ imageWidth < cascade[0] /\ imageHeight >= cascade[1]
    /\ loc.trace = <<>> /\ loc.rects = <<>>

---------------------------------------------------------------------------
\* What the last call returns on a detector just built.
SameCallOnFreshDetector ==
    LET r == detectorDetect(
                 NewDetector(imageWidth, imageHeight, rescaleFactor, cascade, det.tilted),
                 image, call.group, call.stepSize, call.canny)
    IN  [threw |-> r.threw, isGrouped |-> r.isGrouped, value |-> r.value]

\* C19: the result of a detector.detect call is a function of its frame
\* and parameters only: whatever calls were made on the detector before,
\* the call returns what it returns on a detector on which no call was
\* made, so that no buffer carries a value of an earlier call into it.
C19_ResultDependsOnCallOnly ==
    (pc = "detector" /\ call.number > 0) => result = SameCallOnFreshDetector

---------------------------------------------------------------------------
(* The nodes of the generic cascade against those of the compiled one.     *)

\* The nodes of a generic cascade in order: the index of the tilted flag
\* of each, and the number of its stage.
RECURSIVE NodesFrom(_, _, _, _, _)
NodesFrom(data, q, left, stage, acc) ==
    IF left > 0
    THEN NodesFrom(data, q + 5 + 5 * data[q + 1], left - 1, stage,
                   Append(acc, [at |-> q, stage |-> stage]))
    ELSE IF q < Length(data) - 1
    THEN NodesFrom(data, q + 2, data[q + 1], stage + 1, acc)
    ELSE acc

NodesOf(data) == NodesFrom(data, 2, 0, 0, <<>>)

\* The weighted feature response of the generic node at q for the window at
\* (x, y): the sum of weight * rectangle sum over its features, the
\* rectangle sums read from the tables.
Response(q, x, y) ==
    LET feature(k) == FeatureAt(cascade, [at |-> q + 2 + 5 * k])
        rectangle(f) ==
            IF cascade[q] # 0
            THEN TiltedFourRead(rsatBuf, x + f[1], y + f[2], f[3], f[4], imageWidth)
            ELSE FourCorner(satBuf, x + f[1], y + f[2], x + f[1] + f[3], y + f[2] + f[4],
                            imageWidth + 1)
        weighted == [k \in 1..cascade[q + 1] |-> feature(k - 1)[5] * rectangle(feature(k - 1))]
    IN  SumOverSet(DOMAIN weighted, weighted, FALSE)

\* s < t * std, where std is the root of the variance when that is above 1
\* and 1 otherwise.
LessThanTimesStd(s, t, variance) ==
    LET v == IF variance > 1 THEN variance ELSE 1
    IN  IF t > 0 THEN s <= 0 \/ s * s < t * t * v
        ELSE s < 0 /\ s * s > t * t * v

\* The leaf the rule of the generic node selects: left exactly when
\* s < t * std.
UnfoldedLeaf(q, x, y, variance) ==
    LET at == q + 2 + 5 * cascade[q + 1]
    IN  IF LessThanTimesStd(Response(q, x, y), cascade[at], variance)
        THEN cascade[at + 1] ELSE cascade[at + 2]

\* The leaves detect selects on the compiled nodes, in order, for the
\* window at satIndex.
RECURSIVE SelectedLeaves(_, _, _, _, _, _, _)
SelectedLeaves(classifier, i, j, jEnd, satIndex, variance, acc) ==
    IF j < jEnd
    THEN LET f == EvalFeatures(classifier,
                               IF Truthy(classifier[i + 1]) THEN rsatBuf ELSE satBuf,
                               i + 2, (i + 1) + AsUint(classifier[i + 2]), satIndex,
                               <<0, 1>>)
         IN  SelectedLeaves(classifier, f.i + 2, j + 1, jEnd, satIndex, variance,
                 Append(acc, FracOf(classifier[LeafIndex(f.i, f.sum, variance)])))
    ELSE IF i < Length(classifier) - 1
    THEN SelectedLeaves(classifier, i + 2, 0, AsUint(classifier[i + 2]), satIndex,
                        variance, acc)
    ELSE acc

\* C20: for every node with a non-zero threshold t that detect evaluates,
\* the leaf it adds to the stage sum on the compiled node is the leaf the
\* rule of the generic node selects for the weighted response s and the
\* window normalisation std: left exactly when s < t * std, right
\* otherwise.
C20_CompiledLeafIsUnfoldedLeaf ==
    pc \in {"detect", "returned"} =>
        \A i \in 1..Len(loc.trace) :
            LET t == loc.trace[i]
                nodes == NodesOf(cascade)
                leaves == SelectedLeaves(compiled, 1, 0, 0, t.satIndex, t.variance, <<>>)
            IN  ~t.skipped =>
                    /\ Len(leaves) = Len(nodes)
                    /\ \A k \in 1..Len(nodes) :
                           (/\ nodes[k].stage <= Len(t.sums)
                            /\ cascade[nodes[k].at + 2 + 5 * cascade[nodes[k].at + 1]] # 0) =>
                               leaves[k] = <<UnfoldedLeaf(nodes[k].at, t.x, t.y, t.variance), 1>>

---------------------------------------------------------------------------
(* The words of a compiled feature against the feature they come from.    *)

\* The index before the three words of each of the n features that follow
\* index i.
TreeWords(i, n) == [k \in 1..n |-> i + 3 * (k - 1)]

\* The same for every feature of a compiled classifier, in order.
RECURSIVE WordsFrom(_, _, _, _, _)
WordsFrom(classifier, i, j, jEnd, acc) ==
    IF j < jEnd
    THEN WordsFrom(classifier, i + 4 + AsUint(classifier[i + 2]), j + 1, jEnd,
                   acc \o TreeWords(i + 2, AsUint(classifier[i + 2]) \div 3))
    ELSE IF i < Length(classifier) - 1
    THEN WordsFrom(classifier, i + 2, 0, AsUint(classifier[i + 2]), acc)
    ELSE acc

\* The k-th feature of a generic cascade.
Nth(F, k) == CHOOSE f \in F : Cardinality({g \in F : g.at < f.at}) = k - 1

\* Table indices of window corners the relation is checked for.
CornerPool == {0, 5}

\* C21: for every feature (x, y, fw, fh) compiled for stride S whose
\* relative offsets fit in 16 bits, the four table indices detect derives
\* from the compiled words for a window at table index p are p + x + y * S,
\* that plus the first offset, that plus the second, and that plus both
\* (the offsets are fw and fh * S, or fw * (S + 1) and fh * (S - 1) when
\* tilted).
C21_PackedOffsetsRoundTrip ==
    pc = "compiled" =>
        LET F == FeaturesOf(cascade)
            words == WordsFrom(compiled, 1, 0, 0, <<>>)
            S == imageWidth + 1
        IN  /\ Len(words) = Cardinality(F)
            /\ \A k \in 1..Len(words) : \A p \in CornerPool :
                   LET g == FeatureAt(cascade, Nth(F, k))
                       o == Offsets(g, Nth(F, k).tilted, S)
                       f1 == p + AsUint(compiled[words[k] + 1])
                       f2 == f1 + LowHalf(compiled[words[k] + 2])
                       f3 == f1 + HighHalf(compiled[words[k] + 2])
                   IN  (o[1] < 65536 /\ o[2] < 65536) =>
                           /\ f1 = p + g[1] + g[2] * S
                           /\ f2 = f1 + o[1]
                           /\ f3 = f1 + o[2]
                           /\ f2 + f3 - f1 = f1 + o[1] + o[2]

\* A cascade with a tilted and an untilted feature compiled for a stride
\* at which the high offsets of both are above 32767 and fit.
C21_Witness ==
    /\ pc = "compiled"
    /\ imageWidth = 32766
    /\ \E f, g \in FeaturesOf(cascade) :
           /\ f.tilted /\ ~g.tilted
           /\ cascade[f.at + 3] = 2 /\ cascade[f.at + 2] = 1
           /\ cascade[g.at + 3] = 2

---------------------------------------------------------------------------
(* The groups groupRectangles returns against the relation of its filter.  *)

\* The fraction p - q.
FracSub(p, q) == FracAdd(p, <<-q[1], q[2]>>)

\* Group a lies inside group b when b is widened by confluence times the
\* width and the height of group t on every side.
Contained(a, b, t, c) ==
    LET dx == <<t.w * c[1], t.d * c[2]>>
        dy == <<t.h * c[1], t.d * c[2]>>
    IN  /\ ~FracLess(<<a.x, a.d>>, FracSub(<<b.x, b.d>>, dx))
        /\ ~FracLess(<<a.y, a.d>>, FracSub(<<b.y, b.d>>, dy))
        /\ ~FracLess(FracAdd(<<b.x + b.w, b.d>>, dx), <<a.x + a.w, a.d>>)
        /\ ~FracLess(FracAdd(<<b.y + b.h, b.d>>, dy), <<a.y + a.h, a.d>>)

\* C23: no two groups of the list groupRectangles returns are in the
\* containment relation of the filter: of an earlier group A and a later
\* group B neither lies inside the other within the tolerance
\* confluence * (width of B, height of B).
C23_NoReturnedGroupContained ==
    (pc = "grouped" /\ ~grouped.threw) =>
        \A i, j \in 1..Len(grouped.value) :
            (i < j /\ grouped.value[i].defined /\ grouped.value[j].defined) =>
                /\ ~Contained(grouped.value[i], grouped.value[j], grouped.value[j],
                              Confluence(confluence))
                /\ ~Contained(grouped.value[j], grouped.value[i], grouped.value[j],
                              Confluence(confluence))

\* Four classes of which the filter drops one and returns three.
C23_Witness ==
    /\ pc = "grouped" /\ ~grouped.threw
    /\ Classes.numClasses = 4
    /\ Len(grouped.value) = 3
    /\ \A k \in 1..3 : grouped.value[k].defined

---------------------------------------------------------------------------
(* The compiled classifiers of a detector against its levels.              *)

\* ~~(size / scale) for the scale of level i.
LevelSize(size, i) == DblTrunc(DblDiv(DblOf(size), LevelScale(det.scaleFactor, i)))

\* C24: a detector holds exactly numScales compiled classifiers; the one
\* of level i is compiled for the width floor(workingWidth / scale of
\* level i) of the scaled image of that level, and at every level the
\* scaled image is at least as wide and as high as the classifier window.
C24_OneClassifierPerLevel ==
    pc = "detector" =>
        /\ Len(det.compiledClassifiers) = det.numScales
        /\ \A i \in 0..(det.numScales - 1) :
               /\ det.compiledClassifiers[i + 1]
                      = compileClassifier(cascade, LevelSize(imageWidth, i))
               /\ LevelSize(imageWidth, i) >= cascade[0]
               /\ LevelSize(imageHeight, i) >= cascade[1]

---------------------------------------------------------------------------
(* The normalisation constant of a window.                                 *)

\* The corner differences of a table for the window at (x, y).
WindowSum(table, x, y) ==
    LET at(u, v) == table[u + v * (imageWidth + 1)]
    IN  at(x, y) - at(x + cascade[0], y) - at(x, y + cascade[1])
            + at(x + cascade[0], y + cascade[1])

\* area * sumSq - sum^2 for the window at (x, y).
WindowVariance(x, y) ==
    cascade[0] * cascade[1] * WindowSum(ssatBuf, x, y)
        - WindowSum(satBuf, x, y) * WindowSum(satBuf, x, y)

\* C25: for every window detect evaluates, std comes from the corner
\* differences of sat and ssat for that window and is at least 1: it is
\* sqrt(area * sumSq - sum^2) when that exceeds 1 and 1 otherwise; a
\* constant window has std = 1 and is evaluated through the cascade.
C25_StdClampedPerWindow ==
    pc \in {"detect", "returned"} =>
        \A k \in 1..Len(loc.trace) :
            LET w == loc.trace[k]
                v == WindowVariance(w.x, w.y)
            IN  ~w.skipped =>
                    /\ w.stdSquared >= 1
                    /\ w.stdSquared = (IF v > 1 THEN v ELSE 1)
                    /\ v = 0 => w.stdSquared = 1 /\ Len(w.sums) >= 1

\* A returned run that evaluated a constant window and a window of
\* variance above 1.
C25_Witness ==
    /\ pc = "returned"
    /\ \E k \in 1..Len(loc.trace) :
           /\ ~loc.trace[k].skipped
           /\ WindowVariance(loc.trace[k].x, loc.trace[k].y) = 0
           /\ loc.trace[k].stdSquared = 1
    /\ \E k \in 1..Len(loc.trace) :
           /\ ~loc.trace[k].skipped
           /\ loc.trace[k].stdSquared > 1
           /\ loc.trace[k].stdSquared = WindowVariance(loc.trace[k].x, loc.trace[k].y)

---------------------------------------------------------------------------
(* computeCanny on its own, with no destination or a new one.              *)

\* The sides of the images: the smallest with an inner pixel, and one more.
CannySides == {5, 6}

\* A dark image with at most one bright pixel.
CannyImages(n) ==
    {NewArray(n)} \cup {[NewArray(n) EXCEPT ![i] = Bright] : i \in 0..(n - 1)}

InitCanny ==
    /\ pc = "image"
    /\ imageWidth \in CannySides
    /\ imageHeight \in CannySides
    /\ image \in CannyImages(imageWidth * imageHeight)
    /\ imageType = "Uint32Array"
    /\ dstPassed \in {Null, [same |-> FALSE, type |-> "Uint32Array",
                              data |-> NewArray(imageWidth * imageHeight)]}
    /\ rescaleFactor = <<1, 1>> /\ dstBuf = Null /\ again = Null
    /\ TableIdle /\ GroupIdle /\ DetectIdle /\ DetectorIdle

\* dstBuf = computeCanny(image, imageWidth, imageHeight, dstPassed)
ComputeCanny ==
    /\ pc = "image"
    /\ dstBuf' = computeCanny(image, imageWidth, imageHeight,
                              IF dstPassed = Null THEN Null ELSE dstPassed.data)
    /\ pc' = "edges"
    /\ UNCHANGED <<imageVars, tableVars, groupVars, detectVars, imageType,
                   rescaleFactor, dstPassed, again, detectorVars>>

NextCanny == ComputeCanny

SpecCanny == InitCanny /\ [][NextCanny]_vars

\* The pixels with 2 <= x < w - 2 and 2 <= y < h - 2.
Inner(i) ==
    /\ i % imageWidth >= 2 /\ i % imageWidth < imageWidth - 2
    /\ i \div imageWidth >= 2 /\ i \div imageWidth < imageHeight - 2

\* The gradient magnitude of the image smoothed by both gaussian passes,
\* every pixel of the passes taken from the source.
SmoothedRows ==
    CannyHorizontal(image, PassBegin(NewArray(imageWidth * imageHeight), 2, 0, 2),
                    imageWidth, imageHeight)
Smoothed ==
    CannyVertical(SmoothedRows, PassBegin(NewArray(imageWidth * imageHeight), 0, 2,
                                          imageWidth),
                  imageWidth, imageHeight)

\* C26: computeCanny with a new, all-zero destination that is not the
\* source leaves every pixel of the 2-pixel border at zero and writes
\* gradient magnitudes to the pixels with 2 <= x < w - 2, 2 <= y < h - 2
\* only.
C26_BorderStaysZero ==
    pc = "edges" =>
        \A i \in 0..(imageWidth * imageHeight - 1) :
            dstBuf[i] = IF Inner(i) THEN Gradient(Smoothed, i, imageWidth) ELSE 0

\* The same for the inner pixels alone.
C26_InnerIsGradient ==
    pc = "edges" =>
        \A i \in 0..(imageWidth * imageHeight - 1) :
            Inner(i) => dstBuf[i] = Gradient(Smoothed, i, imageWidth)

---------------------------------------------------------------------------
(* mirrorImage with the source passed as destination.                      *)

\* C27: mirrorImage called with dst the same buffer as src leaves the
\* buffer holding the horizontal flip of its content,
\* buffer[y][x] = original[y][w-1-x], for every width, odd or even.
C27_MirrorInPlaceIsAFlip ==
    [][(pc = "image" /\ dstPassed # Null /\ dstPassed.same) =>
          /\ image' = Flip(image, imageWidth, imageHeight)
          /\ dstBuf'.data = image']_vars

\* The same for the odd widths alone.
C27_OddWidthInPlaceIsAFlip ==
    [][(pc = "image" /\ dstPassed # Null /\ dstPassed.same /\ imageWidth % 2 = 1) =>
          /\ image' = Flip(image, imageWidth, imageHeight)
          /\ dstBuf'.data = image']_vars

---------------------------------------------------------------------------
(* The table indices detect reads.                                         *)

\* The four indices read for a rectangle with first corner f1 and the
\* corners f2 and f3 next to it.
FourIndices(f1, f2, f3) == {f1, f2, f3, f2 + f3 - f1}

\* C28: for an image of w x h pixels no smaller than the window and every
\* step, the window corners detect reads in sat, ssat and cannySat and
\* the corners it reads in sat for the untilted features are indices from
\* 0 to (w + 1) * (h + 1) - 1, and the running index satIndex of the
\* window at (x, y) is x + y * (w + 1), also after a window skipped by the
\* canny test.
C28_ReadsInsideTables ==
    pc \in {"detect", "returned"} =>
        LET S == imageWidth + 1
            last == S * (imageHeight + 1) - 1
            F == FeaturesOf(cascade)
            words == WordsFrom(compiled, 1, 0, 0, <<>>)
        IN  /\ DOMAIN satBuf = 0..last /\ DOMAIN ssatBuf = 0..last
            /\ cannySatBuf # Null => DOMAIN cannySatBuf = 0..last
            /\ Len(loc.trace) > 0 => imageWidth >= cascade[0] /\ imageHeight >= cascade[1]
            /\ \A k \in 1..Len(loc.trace) :
                   LET w == loc.trace[k]
                   IN  /\ w.satIndex = w.x + w.y * S
                       /\ FourIndices(w.satIndex, w.satIndex + AsUint(compiled[0]),
                                      w.satIndex + AsUint(compiled[1]) * S) \subseteq 0..last
                       /\ \A n \in 1..Len(words) :
                              LET f1 == w.satIndex + AsUint(compiled[words[n] + 1])
                                  f2 == f1 + LowHalf(compiled[words[n] + 2])
                                  f3 == f1 + HighHalf(compiled[words[n] + 2])
                              IN  ~Nth(F, n).tilted =>
                                      FourIndices(f1, f2, f3) \subseteq 0..last

\* A returned run with step 1 in which a window skipped by the canny test
\* is followed, in the same column, by a window that is evaluated and
\* touches the bottom border, and a window that touches the right border is
\* evaluated.
C28_Witness ==
    /\ pc = "returned"
    /\ stepSize = 1
    /\ \E n \in 1..Cardinality(FeaturesOf(cascade)) : ~Nth(FeaturesOf(cascade), n).tilted
    /\ \E k \in 1..(Len(loc.trace) - 1) :
           /\ loc.trace[k].skipped
           /\ ~loc.trace[k + 1].skipped
           /\ loc.trace[k + 1].x = loc.trace[k].x
           /\ loc.trace[k + 1].y = imageHeight - cascade[1]
           /\ loc.trace[k + 1].satIndex = loc.trace[k].satIndex + imageWidth + 1
    /\ \E k \in 1..Len(loc.trace) :
           /\ ~loc.trace[k].skipped
           /\ loc.trace[k].x = imageWidth - cascade[0]

---------------------------------------------------------------------------
(* mirrorClassifier applied to its own result.                             *)

\* again = mirrorClassifier(result, dst); result is the source object.
MirrorClassifierAgain ==
    /\ pc = "mirrored"
    /\ \E dst \in {"none", "same"} :
           \E r \in {mirrorClassifier(result, dst)} :
               /\ again' = [data |-> r.data, tilted |-> r.tilted]
               /\ result' = r.src
    /\ pc' = "twice"
    /\ UNCHANGED <<imageVars, tableVars, groupVars, detectVars, imageType, rescaleFactor,
                   dstPassed, dstBuf, det, call, camera>>

NextMirrorTwice == MirrorClassifier \/ MirrorClassifierAgain

SpecMirrorTwice == InitMirrorClassifier /\ [][NextMirrorTwice]_vars

\* C29: mirrorClassifier is an involution on cascades with integer feature
\* geometry: mirrorClassifier(mirrorClassifier(c)) has the numeric
\* content of c, for untilted and for tilted features.
C29_MirrorTwiceIsIdentity ==
    pc = "twice" => again.data = cascade

\* A cascade with a tilted feature that is not square and an untilted
\* feature that moves, mirrored twice into new arrays.
C29_Witness ==
    /\ pc = "twice" /\ call.dst = "none"
    /\ result.data # cascade
    /\ again.data = cascade
    /\ \E f, g \in FeaturesOf(cascade) :
           /\ f.tilted /\ ~g.tilted
           /\ cascade[f.at + 2] # cascade[f.at + 3]
           /\ result.data[f.at + 2] = cascade[f.at + 3]
           /\ result.data[g.at] # cascade[g.at]

---------------------------------------------------------------------------
(* loadCamera: the frames of play.  camera holds the variables of the      *)
(* closure and the label of the page; frame counts the calls of play, and  *)
(* began, ran, openFrame and closedFrame record, for the frame running or  *)
(* last run, the flags it began with, the detectors it ran, and the frames *)
(* that set the labels (0: none).                                          *)

MaxFrames == 6

\* What detector.detect(video, 3) gives play: a list whose first entry is
\* a rectangle, a list with no first rectangle ([] or [undefined]), or an
\* exception out of groupRectangles.
Outcomes == {"found", "none", "throws"}

\* The state after loadCamera has asked for the camera.
InitCamera ==
    /\ pc = "camera"
    /\ camera = [isOpenDone |-> FALSE, isClosedDone |-> FALSE, detector |-> FALSE,
                 label |-> "", frame |-> 0,
                 began |-> [isOpenDone |-> FALSE, isClosedDone |-> FALSE],
                 ran |-> {}, openFrame |-> 0, closedFrame |-> 0]
    /\ det = Null /\ call = Null /\ result = Null
    /\ ImageIdle /\ TableIdle /\ GroupIdle /\ DetectIdle /\ BufferIdle

CameraFrame == <<imageVars, tableVars, groupVars, detectVars, bufferVars, det, call, result>>

\* The success callback of getUserMedia: requestAnimationFrame(play).
StreamOpened ==
    /\ pc = "camera"
    /\ pc' = "scheduled"
    /\ UNCHANGED <<camera, CameraFrame>>

\* The error callback of getUserMedia, or its exception: an alert, no frame.
StreamRefused ==
    /\ pc = "camera"
    /\ pc' = "alerted"
    /\ UNCHANGED <<camera, CameraFrame>>

\* play up to the detection blocks: the next frame is requested, the video
\* drawn, and the detectors built when the video has data for the first
\* time.  Without data the frame ends here.
Play ==
    /\ pc = "scheduled"
    /\ camera.frame < MaxFrames
    /\ \E haveData \in BOOLEAN :
           /\ camera' = [camera EXCEPT
                            !.frame = @ + 1,
                            !.began = [isOpenDone |-> camera.isOpenDone,
                                       isClosedDone |-> camera.isClosedDone],
                            !.ran = {},
                            !.detector = @ \/ haveData]
           /\ pc' = IF haveData THEN "fist" ELSE "scheduled"
    /\ UNCHANGED CameraFrame

\* Mutant: the fist block runs whenever the open hand was seen.
FistTurnWhenOpen(isOpenDone, isClosedDone) == isOpenDone

\* if (isOpenDone && !isClosedDone)
FistTurn(isOpenDone, isClosedDone) == isOpenDone /\ ~isClosedDone

\* The fist block of play.  An exception ends the frame.
PlayFist ==
    /\ pc = "fist"
    /\ IF FistTurn(camera.isOpenDone, camera.isClosedDone)
       THEN \E coords \in Outcomes :
                /\ camera' = IF coords = "found"
                             THEN [camera EXCEPT !.ran = @ \cup {"fist"},
                                                 !.label = "CLOSED",
                                                 !.isClosedDone = TRUE,
                                                 !.closedFrame = camera.frame]
                             ELSE [camera EXCEPT !.ran = @ \cup {"fist"}]
                /\ pc' = IF coords = "throws" THEN "scheduled" ELSE "open"
       ELSE camera' = camera /\ pc' = "open"
    /\ UNCHANGED CameraFrame

\* The open-hand block of play, which ends the frame.
PlayOpen ==
    /\ pc = "open"
    /\ IF ~camera.isOpenDone
       THEN \E openCoords \in Outcomes :
                camera' = IF openCoords = "found"
                          THEN [camera EXCEPT !.ran = @ \cup {"open"},
                                              !.isOpenDone = TRUE,
                                              !.label = "OPEN",
                                              !.openFrame = camera.frame]
                          ELSE [camera EXCEPT !.ran = @ \cup {"open"}]
       ELSE camera' = camera
    /\ pc' = "scheduled"
    /\ UNCHANGED CameraFrame

NextCamera == StreamOpened \/ StreamRefused \/ Play \/ PlayFist \/ PlayOpen

SpecCamera == InitCamera /\ [][NextCamera]_vars

\* What holds of the flags, the labels and the detectors run in a state.
FlagsInOrder ==
    /\ camera.isClosedDone => camera.isOpenDone
    /\ "fist" \in camera.ran => camera.began.isOpenDone /\ ~camera.began.isClosedDone
    /\ camera.label = "CLOSED" =>
           camera.openFrame > 0 /\ camera.closedFrame > camera.openFrame
    /\ (camera.began.isOpenDone /\ camera.began.isClosedDone) => camera.ran = {}

\* C30: in the camera loop, over any frames and detection outcomes,
\* isClosedDone implies isOpenDone in every state, no flag returns to
\* false, the fist detector runs only in frames that begin with isOpenDone
\* true and isClosedDone false, so that CLOSED is set only in a frame later
\* than the one that set OPEN, and once both flags are true no detector
\* runs in any later frame.
C30_OpenThenClosedOnce ==
    [][/\ FlagsInOrder /\ FlagsInOrder'
       /\ camera.isOpenDone => camera'.isOpenDone
       /\ camera.isClosedDone => camera'.isClosedDone
       /\ (camera.isOpenDone /\ camera.isClosedDone /\ pc = "scheduled") =>
              camera'.ran = {}]_vars

\* A frame that ran no detector, begun after OPEN was set in one frame and
\* CLOSED in a later one, with a fist frame in between that found nothing.
C30_Witness ==
    /\ pc = "scheduled"
    /\ camera.label = "CLOSED"
    /\ camera.closedFrame > camera.openFrame + 1
    /\ camera.frame > camera.closedFrame
    /\ camera.began.isClosedDone
    /\ camera.ran = {}

=============================================================================
